---------------------------- MODULE Spec2Model ----------------------------
(***************************************************************************)
(* Model of the TrueCast fact-check relayer (relayer.js).                  *)
(*                                                                         *)
(* Text is a sequence of characters.  A character is a one-letter string;  *)
(* a word that the code never looks inside (a field name such as           *)
(* Fact_score, a claim sentence, the literal null) is one character of the *)
(* alphabet.  JavaScript numbers are exact rationals [n, d] in lowest      *)
(* terms, or NaN; the scores the model feeds in have at most a handful of  *)
(* digits, for which double arithmetic and exact arithmetic print alike.   *)
(*                                                                         *)
(* A value that is used more than once is bound by a quantifier over a     *)
(* one-element set, Only({ F(v) : v \in {e} }), so that e is evaluated     *)
(* once.                                                                   *)
(***************************************************************************)
EXTENDS Integers, Sequences, FiniteSets, TLC

LB  == "{"
RB  == "}"
SQ  == "'"
DQ  == "\""
PCT == "%"
DOT == "."

Digits == <<"0", "1", "2", "3", "4", "5", "6", "7", "8", "9">>

IsDigit(c) == \E i \in 1..10 : Digits[i] = c

DigitVal(c) == (CHOOSE i \in 1..10 : Digits[i] = c) - 1

IsWs(c) == c = " "

\* the element of a one-element set
Only(S) == CHOOSE x \in S : TRUE

\* ------------------------------------------------------------------------
\* String primitives of the JavaScript runtime
\* ------------------------------------------------------------------------

\* String.prototype.replace(/c/g, d) for a one-character pattern
ReplaceAll(s, c, d) == [i \in 1..Len(s) |-> IF s[i] = c THEN d ELSE s[i]]

\* String.prototype.replace(/c/g, "")
RemoveAll(s, c) == SelectSeq(s, LAMBDA x : x # c)

\* the first position at or after i that holds no blank
RECURSIVE SkipWs(_, _)
SkipWs(s, i) == IF i <= Len(s) /\ IsWs(s[i]) THEN SkipWs(s, i + 1) ELSE i

\* the last position at or before i that holds no blank
RECURSIVE SkipWsBack(_, _)
SkipWsBack(s, i) == IF i >= 1 /\ IsWs(s[i]) THEN SkipWsBack(s, i - 1) ELSE i

TrimStart(s) == SubSeq(s, SkipWs(s, 1), Len(s))

\* String.prototype.trim
Trim(s) == SubSeq(s, SkipWs(s, 1), SkipWsBack(s, Len(s)))

\* String.prototype.endsWith for a one-character suffix
EndsWith(s, c) == s # <<>> /\ s[Len(s)] = c

\* Index of the first occurrence of c in s at or after position from, 0 if none
RECURSIVE IndexFrom(_, _, _)
IndexFrom(s, c, from) ==
  IF from > Len(s) THEN 0
  ELSE IF s[from] = c THEN from
  ELSE IndexFrom(s, c, from + 1)

\* Index of the last occurrence of c in s at or before position to, 0 if none
RECURSIVE LastIndexTo(_, _, _)
LastIndexTo(s, c, to) ==
  IF to < 1 THEN 0
  ELSE IF s[to] = c THEN to
  ELSE LastIndexTo(s, c, to - 1)

\* ------------------------------------------------------------------------
\* JavaScript numbers
\* ------------------------------------------------------------------------

NaN == [nan |-> TRUE, n |-> 0, d |-> 1]

Abs(x) == IF x < 0 THEN -x ELSE x

RECURSIVE Gcd(_, _)
Gcd(a, b) == IF b = 0 THEN a ELSE Only({ Gcd(b, m) : m \in {a % b} })

RECURSIVE Pow10(_)
Pow10(k) == IF k = 0 THEN 1 ELSE 10 * Pow10(k - 1)

\* the number n/d, d > 0, in lowest terms
Rat(n, d) ==
  Only({ [nan |-> FALSE, n |-> n \div g, d |-> d \div g] : g \in {Gcd(Abs(n), d)} })

Neg(x) == IF x.nan THEN x ELSE [x EXCEPT !.n = -x.n]

\* value of the digits s[lo..hi] read in base ten
RECURSIVE DigitsVal(_, _, _)
DigitsVal(s, lo, hi) ==
  IF hi < lo THEN 0 ELSE 10 * DigitsVal(s, lo, hi - 1) + DigitVal(s[hi])

\* digits of a natural number, no leading zeros ("0" for zero)
RECURSIVE NatToDigits(_)
NatToDigits(x) ==
  IF x < 10 THEN <<Digits[x + 1]>>
  ELSE NatToDigits(x \div 10) \o <<Digits[(x % 10) + 1]>>

\* digits of x left-padded with zeros to width w
RECURSIVE PadDigits(_, _)
PadDigits(x, w) ==
  IF w = 0 THEN <<>> ELSE PadDigits(x \div 10, w - 1) \o <<Digits[(x % 10) + 1]>>

\* the least k with d dividing 10^k (d is a divisor of a power of ten)
RECURSIVE DecimalPlaces(_, _)
DecimalPlaces(d, k) == IF Pow10(k) % d = 0 THEN k ELSE DecimalPlaces(d, k + 1)

\* Number.prototype.toString for a number with a finite decimal expansion
NumToString(x) ==
  IF x.nan THEN <<"NaN">>
  ELSE Only({ (IF x.n < 0 THEN <<"-">> ELSE <<>>)
                \o NatToDigits((Abs(x.n) * (p \div x.d)) \div p)
                \o (IF p = 1 THEN <<>>
                    ELSE <<DOT>> \o PadDigits((Abs(x.n) * (p \div x.d)) % p,
                                              DecimalPlaces(x.d, 0)))
              : p \in {Pow10(DecimalPlaces(x.d, 0))} })

\* Number.prototype.toFixed(2): the nearest multiple of 1/100, a tie going to
\* the larger magnitude, always with two decimals
ToFixed2(x) ==
  IF x.nan THEN <<"NaN">>
  ELSE Only({ (IF x.n < 0 THEN <<"-">> ELSE <<>>)
                \o NatToDigits(q \div 100) \o <<DOT>> \o PadDigits(q % 100, 2)
              : q \in {(2 * 100 * Abs(x.n) + x.d) \div (2 * x.d)} })

\* length of the longest run of digits of s starting at position i
RECURSIVE DigitRun(_, _)
DigitRun(s, i) ==
  IF i <= Len(s) /\ IsDigit(s[i]) THEN 1 + DigitRun(s, i + 1) ELSE 0

\* the decimal literal of s at position b: il integer digits, then, if a dot
\* follows, fl fraction digits
Decimal(s, b, il, fl) ==
  Rat(DigitsVal(s, b, b + il - 1) * Pow10(fl) + DigitsVal(s, b + il + 1, b + il + fl),
      Pow10(fl))

FractionRun(s, p) == IF p <= Len(s) /\ s[p] = DOT THEN DigitRun(s, p + 1) ELSE 0

\* parseFloat: the longest decimal-literal prefix after leading blanks, else NaN
ParseFloat(str) ==
  Only({ Only({ Only({ Only({
      IF il + fl = 0 THEN NaN
      ELSE IF s[1] = "-" THEN Neg(Decimal(s, b, il, fl)) ELSE Decimal(s, b, il, fl)
    : fl \in {FractionRun(s, b + il)} })
    : il \in {DigitRun(s, b)} })
    : b \in {IF s # <<>> /\ s[1] \in {"-", "+"} THEN 2 ELSE 1} })
    : s \in {TrimStart(str)} })

NumAdd(a, b) ==
  IF a.nan \/ b.nan THEN NaN ELSE Rat(a.n * b.d + b.n * a.d, a.d * b.d)

\* the sum is handed on undivided
NumDivNone(a, k) == IF a.nan \/ k = 0 THEN NaN ELSE a

\* a / k for a count k >= 0; 0/0 is NaN (a non-zero numerator never meets k = 0)
NumDivCount(a, k) ==
  IF a.nan \/ k = 0 THEN NaN ELSE Rat(a.n, a.d * k)

\* ToBoolean of a number: NaN and zero are falsy
Truthy(x) == ~x.nan /\ x.n # 0

\* ------------------------------------------------------------------------
\* JSON.parse and JSON.stringify
\* ------------------------------------------------------------------------

JUndef     == [t |-> "undef", v |-> <<>>]
JNull      == [t |-> "null", v |-> <<>>]
JNum(x)    == [t |-> "num", v |-> <<x>>]
JStr(s)    == [t |-> "str", v |-> s]
JArr(es)   == [t |-> "arr", v |-> es]
JObj(ms)   == [t |-> "obj", v |-> ms]

PFail == [ok |-> FALSE, val |-> JNull, next |-> 0]
POk(val, next) == [ok |-> TRUE, val |-> val, next |-> next]

\* a JSON string: from a double quote to the next double quote
ParseString(s, i) ==
  IF i > Len(s) \/ s[i] # DQ THEN PFail
  ELSE Only({ IF j = 0 THEN PFail ELSE POk(JStr(SubSeq(s, i + 1, j - 1)), j + 1)
              : j \in {IndexFrom(s, DQ, i + 1)} })

\* a JSON number: -? (0 | [1-9][0-9]*) (. [0-9]+)?
ParseNumber(s, i) ==
  Only({ Only({ Only({
      IF il = 0 \/ (fl = 0 /\ b + il <= Len(s) /\ s[b + il] = DOT) THEN PFail
      ELSE POk(JNum(IF b > i THEN Neg(Decimal(s, b, il, fl)) ELSE Decimal(s, b, il, fl)),
               IF fl > 0 THEN b + il + 1 + fl ELSE b + il)
    : fl \in {FractionRun(s, b + il)} })
    : il \in {IF DigitRun(s, b) > 0 /\ s[b] = "0" THEN 1 ELSE DigitRun(s, b)} })
    : b \in {IF i <= Len(s) /\ s[i] = "-" THEN i + 1 ELSE i} })

RECURSIVE ParseValue(_, _)
RECURSIVE ParseMembers(_, _, _)
RECURSIVE ParseElements(_, _, _)

\* after a member's value v: "," and the next member, or "}"
AfterMember(s, v, all) ==
  Only({ IF e > Len(s) THEN PFail
         ELSE IF s[e] = RB THEN POk(JObj(all), e + 1)
         ELSE IF s[e] = "," THEN ParseMembers(s, e + 1, all)
         ELSE PFail
         : e \in {SkipWs(s, v.next)} })

\* after a member's key k: ":" and the member's value
AfterKey(s, k, acc) ==
  Only({ IF c > Len(s) \/ s[c] # ":" THEN PFail
         ELSE Only({ IF ~v.ok THEN PFail
                     ELSE AfterMember(s, v, Append(acc, [k |-> k.val.v, val |-> v.val]))
                     : v \in {ParseValue(s, c + 1)} })
         : c \in {SkipWs(s, k.next)} })

\* the members of an object after "{" or ","
ParseMembers(s, i, acc) ==
  Only({ IF ~k.ok THEN PFail ELSE AfterKey(s, k, acc)
         : k \in {ParseString(s, SkipWs(s, i))} })

\* after an element: "," and the next element, or "]"
AfterElement(s, v, all) ==
  Only({ IF e > Len(s) THEN PFail
         ELSE IF s[e] = "]" THEN POk(JArr(all), e + 1)
         ELSE IF s[e] = "," THEN ParseElements(s, e + 1, all)
         ELSE PFail
         : e \in {SkipWs(s, v.next)} })

\* the elements of an array after "[" or ","
ParseElements(s, i, acc) ==
  Only({ IF ~v.ok THEN PFail ELSE AfterElement(s, v, Append(acc, v.val))
         : v \in {ParseValue(s, i)} })

\* the value that starts at position b, which holds no blank
ValueAt(s, b) ==
  IF b > Len(s) THEN PFail
  ELSE IF s[b] = LB THEN
         Only({ IF c <= Len(s) /\ s[c] = RB THEN POk(JObj(<<>>), c + 1)
                ELSE ParseMembers(s, c, <<>>)
                : c \in {SkipWs(s, b + 1)} })
  ELSE IF s[b] = "[" THEN
         Only({ IF c <= Len(s) /\ s[c] = "]" THEN POk(JArr(<<>>), c + 1)
                ELSE ParseElements(s, c, <<>>)
                : c \in {SkipWs(s, b + 1)} })
  ELSE IF s[b] = DQ THEN ParseString(s, b)
  ELSE IF s[b] = "null" THEN POk(JNull, b + 1)
  ELSE ParseNumber(s, b)

\* one JSON value starting at or after position i
ParseValue(s, i) == Only({ ValueAt(s, b) : b \in {SkipWs(s, i)} })

\* JSON.parse: one value and nothing but blanks after it; ok = FALSE is a throw
JSONParse(text) ==
  Only({ Only({ IF r.ok /\ SkipWs(s, r.next) > Len(s) THEN r ELSE PFail
                : r \in {ParseValue(s, 1)} })
         : s \in {text} })

\* the position of the last member of obj named key, 0 if there is none
RECURSIVE MemberIndex(_, _, _)
MemberIndex(ms, key, i) ==
  IF i < 1 THEN 0
  ELSE IF ms[i].k = <<key>> THEN i
  ELSE MemberIndex(ms, key, i - 1)

\* obj.key as JavaScript reads it: undefined when obj has no such member
Prop(obj, key) ==
  IF obj.t # "obj" THEN JUndef
  ELSE Only({ IF i = 0 THEN JUndef ELSE obj.v[i].val
              : i \in {MemberIndex(obj.v, key, Len(obj.v))} })

\* String(value) for the values the relayer converts
ToStringJS(val) ==
  CASE val.t = "num"   -> NumToString(val.v[1])
    [] val.t = "str"   -> val.v
    [] val.t = "null"  -> <<"null">>
    [] val.t = "undef" -> <<"undefined">>
    [] val.t = "arr"   -> <<"[array]">>
    [] val.t = "obj"   -> <<"[object Object]">>

\* JSON.stringify
RECURSIVE Stringify(_)
RECURSIVE StringifyFrom(_, _, _)

\* the members or elements vs[i..] separated by commas
StringifyFrom(vs, i, isObj) ==
  IF i > Len(vs) THEN <<>>
  ELSE (IF isObj THEN <<DQ>> \o vs[i].k \o <<DQ, ":">> \o Stringify(vs[i].val)
        ELSE Stringify(vs[i]))
       \o (IF i < Len(vs) THEN <<",">> ELSE <<>>)
       \o StringifyFrom(vs, i + 1, isObj)

Stringify(val) ==
  CASE val.t = "num"  -> NumToString(val.v[1])
    [] val.t = "str"  -> <<DQ>> \o val.v \o <<DQ>>
    [] val.t = "null" -> <<"null">>
    [] val.t = "arr"  -> <<"[">> \o StringifyFrom(val.v, 1, FALSE) \o <<"]">>
    [] val.t = "obj"  -> <<LB>> \o StringifyFrom(val.v, 1, TRUE) \o <<RB>>

\* ------------------------------------------------------------------------
\* Results of the helpers: a value, or a thrown Error
\* ------------------------------------------------------------------------

Ok(v)  == [ok |-> TRUE, val |-> v, err |-> ""]
Err(e) == [ok |-> FALSE, val |-> <<>>, err |-> e]

\* content.match(/\{[^}]*\}/s): from the first "{" to the first "}" after it;
\* <<>> when there is no match (a match is never empty)
MatchBraces(s) ==
  Only({ IF i = 0 THEN <<>>
         ELSE Only({ IF j = 0 THEN <<>> ELSE SubSeq(s, i, j)
                     : j \in {IndexFrom(s, RB, i + 1)} })
         : i \in {IndexFrom(s, LB, 1)} })

\* content.match(/\{[\s\S]*\}/): from the first "{" to the last "}" after it
GreedyMatchBraces(s) ==
  Only({ IF i = 0 THEN <<>>
         ELSE Only({ IF j <= i THEN <<>> ELSE SubSeq(s, i, j)
                     : j \in {LastIndexTo(s, RB, Len(s))} })
         : i \in {IndexFrom(s, LB, 1)} })

\* String(raw).endsWith("%") ? String(raw) : `${raw}%`
WithPercent(str) == IF EndsWith(str, PCT) THEN str ELSE str \o <<PCT>>

\* ------------------------------------------------------------------------
\* The helpers of relayer.js, each as a function of the reply it awaits
\* ------------------------------------------------------------------------

\* axios resolves a reply whose status is 2xx and rejects any other
AxiosResolves(reply) == reply.status \in 200..299

\* ToBoolean of a field of a reply
Falsy(v) ==
  \/ v.t \in {"undef", "null"}
  \/ v.t = "str" /\ v.v = <<>>
  \/ v.t = "num" /\ ~Truthy(v.v[1])

\* the status of the reply is never looked at
fetchArticleAnyStatus(reply) == Ok(reply.data)

fetchArticleByHash(reply) ==
  IF ~AxiosResolves(reply) THEN Err("Request failed with status code")
  ELSE IF reply.status # 200 THEN Err("Failed to fetch article from Walrus")
  ELSE Ok(reply.data)

\* the count is handed on without the null check
fetchTotalResultsUnchecked(reply) ==
  IF ~AxiosResolves(reply) THEN Err("Request failed with status code")
  ELSE IF reply.status # 200 THEN Err("SerpAPI error")
  ELSE Ok(reply.data.total_results)

fetchTotalResults(reply) ==
  IF ~AxiosResolves(reply) THEN Err("Request failed with status code")
  ELSE IF reply.status # 200 THEN Err("SerpAPI error")
  ELSE IF reply.data.total_results.t \in {"undef", "null"}
       THEN Err("Could not read total_results from SerpAPI response")
  ELSE Ok(reply.data.total_results)

\* resp.data.response?.content
ResponseContent(data) == IF data.response THEN data.content ELSE JUndef

\* anything but a claims array counts as no claims
ParseClaimsFallback(content) ==
  Only({ IF m = <<>> THEN Ok(<<>>)
         ELSE Only({ IF ~obj.ok THEN Ok(<<>>)
                     ELSE IF Prop(obj.val, "claims").t # "arr" THEN Ok(<<>>)
                     ELSE Ok(Prop(obj.val, "claims").v)
                     : obj \in {JSONParse(m)} })
         : m \in {GreedyMatchBraces(content)} })

\* lines 141-147: from the model's text to the claims array
ParseClaims(content) ==
  Only({ IF m = <<>> THEN Err("No JSON object found in extractClaims response")
         ELSE Only({ IF ~obj.ok THEN Err("SyntaxError")
                     ELSE IF Prop(obj.val, "claims").t # "arr"
                          THEN Err("extractClaims JSON missing claims array")
                     ELSE Ok(Prop(obj.val, "claims").v)
                     : obj \in {JSONParse(m)} })
         : m \in {GreedyMatchBraces(content)} })

extractClaims(reply) ==
  IF ~AxiosResolves(reply) THEN Err("Request failed with status code")
  ELSE Only({ IF content.t # "str" \/ Trim(content.v) = <<>>
              THEN Err("extractClaims: No content found in broker response")
              ELSE ParseClaims(content.v)
              : content \in {IF ~Falsy(ResponseContent(reply.data))
                             THEN ResponseContent(reply.data)
                             ELSE IF ~Falsy(reply.data.result) THEN reply.data.result
                             ELSE JStr(<<>>)} })

\* lines 179-206: from the model's text to the canonical score string
ParseFactScoreKeepQuotes(resultText) ==
  Only({ IF match = <<>> THEN Err("No JSON found in DeepSeek response")
         ELSE Only({ IF ~parsed.ok THEN Err("Invalid JSON from DeepSeek")
                     ELSE IF Prop(parsed.val, "Fact_score").t \notin {"num", "str"}
                          THEN Err("Invalid JSON from DeepSeek")
                     ELSE Ok(WithPercent(ToStringJS(Prop(parsed.val, "Fact_score"))))
                     : parsed \in {JSONParse(RemoveAll(Trim(match), PCT))} })
         : match \in {MatchBraces(resultText)} })

\* a reply without a JSON object is scored 0% instead of throwing
ParseFactScoreDefault(resultText) ==
  Only({ IF match = <<>> THEN Ok(<<"0", PCT>>)
         ELSE Only({ IF ~parsed.ok THEN Err("Invalid JSON from DeepSeek")
                     ELSE IF Prop(parsed.val, "Fact_score").t \notin {"num", "str"}
                          THEN Err("Invalid JSON from DeepSeek")
                     ELSE Ok(WithPercent(ToStringJS(Prop(parsed.val, "Fact_score"))))
                     : parsed \in {JSONParse(RemoveAll(Trim(ReplaceAll(match, SQ, DQ)),
                                                       PCT))} })
         : match \in {MatchBraces(resultText)} })

ParseFactScore(resultText) ==
  Only({ IF match = <<>> THEN Err("No JSON found in DeepSeek response")
         ELSE Only({ IF ~parsed.ok THEN Err("Invalid JSON from DeepSeek")
                     ELSE IF Prop(parsed.val, "Fact_score").t \notin {"num", "str"}
                          THEN Err("Invalid JSON from DeepSeek")
                     ELSE Ok(WithPercent(ToStringJS(Prop(parsed.val, "Fact_score"))))
                     : parsed \in {JSONParse(RemoveAll(Trim(ReplaceAll(match, SQ, DQ)),
                                                       PCT))} })
         : match \in {MatchBraces(resultText)} })

\* the success flag of the reply is not looked at
scoreClaimAnySuccess(reply) ==
  IF ~AxiosResolves(reply) THEN Err("Request failed with status code")
  ELSE IF ~reply.data.response \/ reply.data.content.t # "str"
       THEN Err("Bad broker response format")
  ELSE ParseFactScore(reply.data.content.v)

scoreClaim(reply) ==
  IF ~AxiosResolves(reply) THEN Err("Request failed with status code")
  ELSE IF ~reply.data.success \/ ~reply.data.response \/ reply.data.content.t # "str"
       THEN Err("Bad broker response format")
  ELSE ParseFactScore(reply.data.content.v)

\* lines 96-103: from the model's text to the bias score string
ParseBiasScore(content) ==
  Only({ IF m = <<>> THEN Err("No JSON object found in computeBiasScore response")
         ELSE Only({ IF ~parsed.ok THEN Err("SyntaxError")
                     ELSE Ok(WithPercent(ToStringJS(Prop(parsed.val, "bias_score"))))
                     : parsed \in {JSONParse(Trim(RemoveAll(ReplaceAll(m, SQ, DQ),
                                                            PCT)))} })
         : m \in {MatchBraces(content)} })

computeBiasScore(reply) ==
  IF ~AxiosResolves(reply) THEN Err("Request failed with status code")
  ELSE IF Falsy(ResponseContent(reply.data))
       THEN Err("No content in DeepSeek response for computeBiasScore")
  ELSE IF ResponseContent(reply.data).t # "str"
       THEN Err("TypeError: content.match is not a function")
  ELSE ParseBiasScore(ResponseContent(reply.data).v)

\* ------------------------------------------------------------------------
\* handleArticle, 4c-4d: aggregation and the payload
\* ------------------------------------------------------------------------

\* nums.reduce((a, b) => a + b, 0) over the first k scored claims
RECURSIVE SumScores(_, _)
SumScores(scored, k) ==
  IF k = 0 THEN Rat(0, 1)
  ELSE Only({ Only({ NumAdd(a, b) : b \in {ParseFloat(scored[k].score)} })
              : a \in {SumScores(scored, k - 1)} })

\* the average without its "|| 0"
AverageNoGuard(scored) == NumDivCount(SumScores(scored, Len(scored)), Len(scored))

\* nums.reduce((a, b) => a + b, 0) / nums.length || 0
Average(scored) ==
  Only({ IF Truthy(q) THEN q ELSE Rat(0, 1)
         : q \in {NumDivCount(SumScores(scored, Len(scored)), Len(scored))} })

OverallScore(scored) == ToFixed2(Average(scored)) \o <<PCT>>

ScoredObj(sc) ==
  JObj(<<[k |-> <<"claim">>, val |-> sc.claim], [k |-> <<"score">>, val |-> JStr(sc.score)]>>)

\* the two score fields of the payload change places
PayloadSwapped(scored, overallScore, biasScore) ==
  Stringify(JObj(<<
    [k |-> <<"claims">>,       val |-> JArr([i \in 1..Len(scored) |-> ScoredObj(scored[i])])],
    [k |-> <<"overallScore">>, val |-> JStr(biasScore)],
    [k |-> <<"biasScore">>,    val |-> JStr(overallScore)]>>))

Payload(scored, overallScore, biasScore) ==
  Stringify(JObj(<<
    [k |-> <<"claims">>,       val |-> JArr([i \in 1..Len(scored) |-> ScoredObj(scored[i])])],
    [k |-> <<"overallScore">>, val |-> JStr(overallScore)],
    [k |-> <<"biasScore">>,    val |-> JStr(biasScore)]>>))

\* ------------------------------------------------------------------------
\* Bounds and the environment: the chain's events and the replies of the
\* blob store, the search API, the inference broker and the RPC endpoint
\* ------------------------------------------------------------------------

NumRequests == 2
MaxClaims   == 2

Requests == 1..NumRequests

URIs == {"blobA", "blobB"}

\* the uri of the r-th FactCheckRequested event: the requests alternate
\* between the two blobs, so that neighbouring requests differ in their
\* article and the first and third share one
EventUri(r) == IF r % 2 = 1 THEN "blobA" ELSE "blobB"

\* the article stored under a uri: its sentences
ArticleAt(uri) == [i \in 1..MaxClaims |-> uri \o "#" \o ToString(i)]

NoJsonText == <<"Sorry", " ", "no", " ", "answer">>

\* braces, but none that opens before one that closes
StrayBraces == <<RB, " ", "97", PCT, " ", LB>>

BrokerData(text) ==
  [success |-> TRUE, response |-> TRUE, content |-> JStr(text), result |-> JUndef]

\* a reply of the old style: the text in result, no response object
LegacyData(text) ==
  [success |-> TRUE, response |-> FALSE, content |-> JUndef, result |-> JStr(text)]

\* the broker reports a failure, whatever text it sends along
FailedData(text) ==
  [success |-> FALSE, response |-> TRUE, content |-> JStr(text), result |-> JUndef]

\* the content of the reply is a number, not a string
NumberData ==
  [success |-> TRUE, response |-> TRUE, content |-> JNum(Rat(97, 1)), result |-> JUndef]

BlobReplies(uri) ==
  { [status |-> 200, data |-> ArticleAt(uri)],
    [status |-> 204, data |-> <<>>],
    [status |-> 404, data |-> <<>>] }

\* what the model answers to the extraction prompt: the first k sentences
ExtractText(article, k) ==
  <<"Claims", ":", " ">>
    \o Stringify(JObj(<<[k |-> <<"claims">>,
                        val |-> JArr([i \in 1..k |-> JStr(<<article[i]>>)])]>>))

\* braces around something that is no JSON
UnparsableClaims == <<"Here", " ", LB, "claims", ":", " ", "none", RB>>

\* JSON objects whose claims member is a string, or is not there
ClaimsNotArray ==
  { Stringify(JObj(<<[k |-> <<"claims">>, val |-> JStr(<<"none">>)]>>)),
    Stringify(JObj(<<[k |-> <<"items">>, val |-> JArr(<<>>)]>>)) }

ExtractReplies(article) ==
  { [status |-> 200, data |-> BrokerData(ExtractText(article, k))] :
      k \in 0..(IF Len(article) < MaxClaims THEN Len(article) ELSE MaxClaims) }
  \cup { [status |-> 200, data |-> BrokerData(NoJsonText)],
         [status |-> 500, data |-> BrokerData(<<>>)] }

\* the same, and the other replies extractClaims tells apart: braces the
\* wrong way round, no JSON between the braces, no claims array, and the
\* first sentence in a reply of the old style
AllExtractReplies(article) ==
  ExtractReplies(article)
  \cup { [status |-> 200, data |-> BrokerData(x)] :
           x \in {StrayBraces, UnparsableClaims} \cup ClaimsNotArray }
  \cup { [status |-> 200, data |-> LegacyData(ExtractText(article, 1))] }

SearchReplies ==
  { [status |-> 200, data |-> [total_results |-> JNum(Rat(50000000, 1))]],
    [status |-> 200, data |-> [total_results |-> JUndef]],
    [status |-> 429, data |-> [total_results |-> JUndef]] }

\* the spellings in which the model words a score
ScoreSpellings ==
  << <<LB, SQ, "Fact_score", SQ, ":", " ", "9", "7", PCT, RB>>,
     <<"Score", ":", " ", LB, DQ, "Fact_score", DQ, ":", " ", "8", "0", RB>>,
     <<LB, SQ, "Fact_score", SQ, ":", " ", DQ, "6", "0", PCT, DQ, RB, " ">> >>

\* the position in its article of the sentence a claim repeats, 1 if none
SentenceIndex(claim) ==
  IF claim.t = "str" /\ \E u \in URIs, i \in 1..MaxClaims : <<ArticleAt(u)[i]>> = claim.v
  THEN CHOOSE i \in 1..MaxClaims : \E u \in URIs : <<ArticleAt(u)[i]>> = claim.v
  ELSE 1

\* what the model answers to the scoring prompt of a claim: a score, worded
\* by the claim's position, or prose without any JSON
ScoreReplies(claim) ==
  { [status |-> 200,
     data |-> BrokerData(ScoreSpellings[((SentenceIndex(claim) - 1) % 3) + 1])],
    [status |-> 200, data |-> BrokerData(NoJsonText)],
    [status |-> 200, data |-> BrokerData(StrayBraces)] }

\* the same, and the shapes of reply that scoreClaim tells apart
AllScoreReplies(claim) ==
  ScoreReplies(claim)
  \cup { [status |-> 200, data |-> FailedData(ScoreSpellings[1])],
         [status |-> 200, data |-> LegacyData(ScoreSpellings[1])],
         [status |-> 200, data |-> NumberData] }

\* a JSON object, but the score is under another name
AllSearchReplies ==
  SearchReplies \cup { [status |-> 200, data |-> [total_results |-> JNull]] }

BiasOtherField == <<LB, SQ, "score", SQ, ":", " ", "5", PCT, RB>>

BiasTexts ==
  { <<LB, SQ, "bias_score", SQ, ":", " ", "5", PCT, RB>>,
    NoJsonText }

BiasReplies == { [status |-> 200, data |-> BrokerData(x)] : x \in BiasTexts }

\* the same, and a reply without the bias_score member, one with braces the
\* wrong way round and one of the old style
AllBiasReplies ==
  BiasReplies
  \cup { [status |-> 200, data |-> BrokerData(BiasOtherField)],
         [status |-> 200, data |-> BrokerData(StrayBraces)],
         [status |-> 200,
          data |-> LegacyData(<<LB, SQ, "bias_score", SQ, ":", " ", "5", PCT, RB>>)] }

\* ------------------------------------------------------------------------
\* State
\* ------------------------------------------------------------------------

VARIABLES
  listening,  \* the FactCheckRequested listener is registered and the process up
  cache,      \* the process-wide Map declared on line 1: its keys
  delivered,  \* the request ids whose event the listener has been handed
  pc,         \* pc[r]: the await at which the handler of request r stands
  frame,      \* frame[f]: the parameters and locals of one handleArticle call
  calls,      \* calls[r]: the external calls the handler of r made, in order
  txs,        \* txs[id]: the fulfillFactCheck transactions the wallet has
              \* broadcast for request id, in order, each mined or not yet
  errlog,     \* what the listener's catch wrote to console.error
  pin,        \* a helper checked on its own: the input it is given,
  pstep,      \*   what has been applied to it,
  pout,       \*   and the result
  chain,      \* the storage and event log of each contract, and the block time
  receipt     \* the last transaction sent to a contract and how it ended

pure == <<pin, pstep, pout>>

onchain == <<chain, receipt>>

relayer == <<listening, cache, delivered, pc, frame, calls, txs, errlog>>

vars == <<listening, cache, delivered, pc, frame, calls, txs, errlog, pin, pstep, pout,
          chain, receipt>>

NoFrame ==
  [requestId |-> 0, uri |-> "", article |-> <<>>, claims |-> <<>>, idx |-> 0,
   scored |-> <<>>, overallScore |-> <<>>, biasScore |-> <<>>, tx |-> <<>>]

\* each invocation of handleArticle has its own parameters and locals
FrameShared(r) == 1

Frame(r) == r

\* the relayer right after start-up: listening, no event handled yet
Idle ==
  /\ listening = TRUE
  /\ cache = {}
  /\ delivered = {}
  /\ pc = [r \in Requests |-> "idle"]
  /\ frame = [r \in Requests |-> NoFrame]
  /\ calls = [r \in Requests |-> <<>>]
  /\ txs = [r \in Requests |-> <<>>]
  /\ errlog = {}

\* no contract is looked at: the relayer or one of its helpers is
Undeployed == [name |-> "none"]

NoReceipt == [fn |-> "none"]

OffChain ==
  /\ chain = Undeployed
  /\ receipt = NoReceipt

Init ==
  /\ Idle
  /\ OffChain
  /\ pin = <<>>
  /\ pstep = "none"
  /\ pout = <<>>

\* a call is issued: it is pending until its reply settles it
NoReply == [status |-> 0]

Issue(cs, kind, arg) ==
  Append(cs, [call |-> kind, arg |-> arg, st |-> "pending", reply |-> NoReply,
              ret |-> <<>>])

\* the pending call of that kind got its reply, and the helper awaiting it
\* returned ret ("ok") or threw ("error")
Settle(cs, kind, reply, st, ret) ==
  [i \in 1..Len(cs) |->
     IF cs[i].call = kind /\ cs[i].st = "pending"
     THEN [cs[i] EXCEPT !.st = st, !.reply = reply, !.ret = ret] ELSE cs[i]]

\* BigNumber.prototype.toString of the event's id
IdToString(id) == NatToDigits(id)

\* the uint256 the contract decodes from the decimal string it is sent
IdOfString(str) == DigitsVal(str, 1, Len(str))

\* a catch that ends the process instead of going on
CatchExit(r, e) ==
  /\ pc' = [pc EXCEPT ![r] = "failed"]
  /\ errlog' = errlog \cup {[id |-> IdToString(r), msg |-> e]}
  /\ listening' = FALSE
  /\ UNCHANGED <<onchain, pure, cache, delivered>>

\* the .catch of the listener: log the error with the request id, nothing else
Catch(r, e) ==
  /\ pc' = [pc EXCEPT ![r] = "failed"]
  /\ errlog' = errlog \cup {[id |-> IdToString(r), msg |-> e]}
  /\ UNCHANGED <<onchain, pure, listening, cache, delivered>>

\* the error of a stage is swallowed: the handler neither goes on nor rejects
ThrowSwallowed(r, kind, reply, e) ==
  /\ calls' = [calls EXCEPT ![r] = Settle(@, kind, reply, "error", <<>>)]
  /\ UNCHANGED <<onchain, pure, listening, cache, delivered, pc, errlog, frame, txs>>

\* a stage threw: the rejection propagates out of handleArticle to the catch
Throw(r, kind, reply, e) ==
  /\ calls' = [calls EXCEPT ![r] = Settle(@, kind, reply, "error", <<>>)]
  /\ Catch(r, e)
  /\ UNCHANGED <<frame, txs>>

\* `${WALRUS_GATEWAY_URL}/${uri}`
Url(uri) == <<"WALRUS_GATEWAY_URL", "/", uri>>

\* the content identifier a gateway url names
UriOfUrl(url) == url[Len(url)]

\* the argument of the pending call of request r of the given kind
PendingArg(r, kind) ==
  calls[r][CHOOSE i \in 1..Len(calls[r]) :
             calls[r][i].call = kind /\ calls[r][i].st = "pending"].arg

\* the loop leaves the last claim out
ProceedSkipLast(r, fr, cs) ==
  IF fr.idx < Len(fr.claims)
  THEN /\ frame' = [frame EXCEPT ![Frame(r)] = fr]
       /\ calls' = [calls EXCEPT ![r] = Issue(cs, "search", fr.claims[fr.idx])]
       /\ pc' = [pc EXCEPT ![r] = "search"]
  ELSE /\ frame' = [frame EXCEPT ![Frame(r)] =
                      [fr EXCEPT !.overallScore = OverallScore(fr.scored)]]
       /\ calls' = [calls EXCEPT ![r] = Issue(cs, "bias", fr.article)]
       /\ pc' = [pc EXCEPT ![r] = "bias"]

\* the bias call is started beside the loop instead of after it
ProceedUnawaited(r, fr, cs) ==
  IF fr.idx <= Len(fr.claims)
  THEN /\ frame' = [frame EXCEPT ![Frame(r)] = fr]
       /\ calls' = [calls EXCEPT ![r] =
                      Issue(Issue(cs, "search", fr.claims[fr.idx]), "bias", fr.article)]
       /\ pc' = [pc EXCEPT ![r] = "search"]
  ELSE /\ frame' = [frame EXCEPT ![Frame(r)] =
                      [fr EXCEPT !.overallScore = OverallScore(fr.scored)]]
       /\ calls' = [calls EXCEPT ![r] = Issue(cs, "bias", fr.article)]
       /\ pc' = [pc EXCEPT ![r] = "bias"]

\* the handler of r goes on after a stage: next claim of the loop, or 4c and
\* the bias call once the loop is over
Proceed(r, fr, cs) ==
  IF fr.idx <= Len(fr.claims)
  THEN /\ frame' = [frame EXCEPT ![Frame(r)] = fr]
       /\ calls' = [calls EXCEPT ![r] = Issue(cs, "search", fr.claims[fr.idx])]
       /\ pc' = [pc EXCEPT ![r] = "search"]
  ELSE /\ frame' = [frame EXCEPT ![Frame(r)] =
                      [fr EXCEPT !.overallScore = OverallScore(fr.scored)]]
       /\ calls' = [calls EXCEPT ![r] = Issue(cs, "bias", fr.article)]
       /\ pc' = [pc EXCEPT ![r] = "bias"]

\* an event is taken up only when no other handler is at work
DeliverWhenFree(r) ==
  /\ listening
  /\ r \notin delivered
  /\ \A q \in Requests : pc[q] \in {"idle", "done", "failed"}
  /\ delivered' = delivered \cup {r}
  /\ frame' = [frame EXCEPT ![Frame(r)] =
                  [NoFrame EXCEPT !.requestId = r, !.uri = EventUri(r)]]
  /\ calls' = [calls EXCEPT ![r] = Issue(@, "fetch", Url(EventUri(r)))]
  /\ pc' = [pc EXCEPT ![r] = "fetch"]
  /\ UNCHANGED <<onchain, pure, listening, cache, txs, errlog>>

\* the chain emits FactCheckRequested(r, requester, uri); the listener calls
\* handleArticle, which runs up to its first await
Deliver(r) ==
  /\ listening
  /\ r \notin delivered
  /\ delivered' = delivered \cup {r}
  /\ frame' = [frame EXCEPT ![Frame(r)] =
                  [NoFrame EXCEPT !.requestId = r, !.uri = EventUri(r)]]
  /\ calls' = [calls EXCEPT ![r] = Issue(@, "fetch", Url(EventUri(r)))]
  /\ pc' = [pc EXCEPT ![r] = "fetch"]
  /\ UNCHANGED <<onchain, pure, listening, cache, txs, errlog>>

\* line 218: the blob-store GET settles
FetchReturn(r, reply) ==
  /\ listening
  /\ pc[r] = "fetch"
  /\ \E res \in {fetchArticleByHash(reply)} :
     IF ~res.ok THEN Throw(r, "fetch", reply, res.err)
     ELSE /\ frame' = [frame EXCEPT ![Frame(r)].article = res.val]
          /\ calls' = [calls EXCEPT ![r] =
                         Issue(Settle(@, "fetch", reply, "ok", res.val), "extract", res.val)]
          /\ pc' = [pc EXCEPT ![r] = "extract"]
          /\ UNCHANGED <<onchain, pure, listening, cache, delivered, txs, errlog>>

\* an extraction that found no claim is taken for a failed one
ExtractReturnDropEmpty(r, reply) ==
  /\ listening
  /\ pc[r] = "extract"
  /\ \E res \in {extractClaims(reply)} :
     IF ~res.ok THEN Throw(r, "extract", reply, res.err)
     ELSE IF res.val = <<>> THEN Throw(r, "extract", reply, "no claims")
     ELSE /\ Proceed(r, [frame[Frame(r)] EXCEPT !.claims = res.val, !.idx = 1,
                                               !.scored = <<>>],
                     Settle(calls[r], "extract", reply, "ok", res.val))
          /\ UNCHANGED <<onchain, pure, listening, cache, delivered, txs, errlog>>

\* line 222: the extraction broker call settles; the loop starts
ExtractReturn(r, reply) ==
  /\ listening
  /\ pc[r] = "extract"
  /\ \E res \in {extractClaims(reply)} :
     IF ~res.ok THEN Throw(r, "extract", reply, res.err)
     ELSE /\ Proceed(r, [frame[Frame(r)] EXCEPT !.claims = res.val, !.idx = 1,
                                               !.scored = <<>>],
                     Settle(calls[r], "extract", reply, "ok", res.val))
          /\ UNCHANGED <<onchain, pure, listening, cache, delivered, txs, errlog>>

\* line 229: the search call settles; scoreClaim posts its prompt
SearchReturn(r, reply) ==
  /\ listening
  /\ pc[r] = "search"
  /\ \E res \in {fetchTotalResults(reply)}, fr \in {frame[Frame(r)]} :
         IF ~res.ok THEN Throw(r, "search", reply, res.err)
         ELSE /\ calls' = [calls EXCEPT ![r] =
                             Issue(Settle(@, "search", reply, "ok", res.val), "score",
                                   [claim |-> fr.claims[fr.idx], total |-> res.val])]
              /\ pc' = [pc EXCEPT ![r] = "score"]
              /\ UNCHANGED <<onchain, pure, listening, cache, delivered, frame, txs, errlog>>

\* lines 230-233: the scoring broker call settles; the scored claim is pushed
ScoreReturn(r, reply) ==
  /\ listening
  /\ pc[r] = "score"
  /\ \E res \in {scoreClaim(reply)}, fr \in {frame[Frame(r)]} :
         IF ~res.ok THEN Throw(r, "score", reply, res.err)
         ELSE /\ Proceed(r, [fr EXCEPT
                               !.scored = Append(@, [claim |-> fr.claims[fr.idx],
                                                     score |-> res.val]),
                               !.idx = @ + 1],
                         Settle(calls[r], "score", reply, "ok", res.val))
              /\ UNCHANGED <<onchain, pure, listening, cache, delivered, txs, errlog>>

\* lines 242-257: the bias broker call settles; the payload is built and
\* fulfillFactCheck is called on the write contract
BiasReturn(r, reply) ==
  /\ listening
  /\ pc[r] = "bias"
  /\ \E res \in {computeBiasScore(reply)}, fr \in {frame[Frame(r)]} :
         IF ~res.ok THEN Throw(r, "bias", reply, res.err)
         ELSE /\ frame' = [frame EXCEPT ![Frame(r)].biasScore = res.val]
              /\ calls' = [calls EXCEPT ![r] =
                             Issue(Settle(@, "bias", reply, "ok", res.val), "submit",
                                   [requestId   |-> IdToString(fr.requestId),
                                    mined       |-> FALSE,
                                    verdict     |-> fr.overallScore,
                                    explanation |-> Payload(fr.scored, fr.overallScore,
                                                            res.val)])]
              /\ pc' = [pc EXCEPT ![r] = "submit"]
              /\ UNCHANGED <<onchain, pure, listening, cache, delivered, txs, errlog>>

\* the handler is over once the transaction is sent: tx.wait() is not awaited
SubmitReturnNoWait(r, sent) ==
  /\ listening
  /\ pc[r] = "submit"
  /\ IF ~sent THEN Throw(r, "submit", [status |-> 0, sent |-> FALSE], "transaction failed")
     ELSE \E tx \in {PendingArg(r, "submit")} : \E id \in {IdOfString(tx.requestId)} :
              /\ txs' = [txs EXCEPT ![id] = Append(@, tx)]
              /\ frame' = [frame EXCEPT ![Frame(r)].tx = <<id, Len(txs[id]) + 1>>]
              /\ calls' = [calls EXCEPT ![r] =
                             Settle(@, "submit", [status |-> 0, sent |-> TRUE], "ok", <<>>)]
              /\ pc' = [pc EXCEPT ![r] = "done"]
              /\ UNCHANGED <<onchain, pure, listening, cache, delivered, errlog>>

\* line 253: the wallet signed and broadcast the transaction, or the call threw
SubmitReturn(r, sent) ==
  /\ listening
  /\ pc[r] = "submit"
  /\ IF ~sent THEN Throw(r, "submit", [status |-> 0, sent |-> FALSE], "transaction failed")
     ELSE \E tx \in {PendingArg(r, "submit")} : \E id \in {IdOfString(tx.requestId)} :
              /\ txs' = [txs EXCEPT ![id] = Append(@, tx)]
              /\ frame' = [frame EXCEPT ![Frame(r)].tx = <<id, Len(txs[id]) + 1>>]
              /\ calls' = [calls EXCEPT ![r] =
                             Issue(Settle(@, "submit", [status |-> 0, sent |-> TRUE], "ok", <<>>), "wait", <<>>)]
              /\ pc' = [pc EXCEPT ![r] = "wait"]
              /\ UNCHANGED <<onchain, pure, listening, cache, delivered, errlog>>

\* line 258: tx.wait() resolves once the transaction is mined, or rejects
WaitReturn(r, mined) ==
  /\ listening
  /\ pc[r] = "wait"
  /\ IF ~mined THEN Throw(r, "wait", [status |-> 0, mined |-> FALSE], "transaction reverted")
     ELSE /\ \E tx \in {frame[Frame(r)].tx} :
               txs' = [txs EXCEPT ![tx[1]][tx[2]].mined = TRUE]
          /\ calls' = [calls EXCEPT ![r] = Settle(@, "wait", [status |-> 0, mined |-> TRUE], "ok", <<>>)]
          /\ pc' = [pc EXCEPT ![r] = "done"]
          /\ UNCHANGED <<onchain, pure, listening, cache, delivered, frame, errlog>>

\* the reply that each await of the handler of r may get
Fetched(r) ==
  /\ pc[r] = "fetch"
  /\ \E reply \in BlobReplies(UriOfUrl(PendingArg(r, "fetch"))) : FetchReturn(r, reply)

Extracted(r) ==
  /\ pc[r] = "extract"
  /\ \E reply \in ExtractReplies(PendingArg(r, "extract")) : ExtractReturn(r, reply)

Searched(r) == \E reply \in SearchReplies : SearchReturn(r, reply)

Scored(r) ==
  /\ pc[r] = "score"
  /\ \E reply \in ScoreReplies(PendingArg(r, "score").claim) : ScoreReturn(r, reply)

Biased(r) == \E reply \in BiasReplies : BiasReturn(r, reply)

Submitted(r) == \E sent \in BOOLEAN : SubmitReturn(r, sent)

Waited(r) == \E mined \in BOOLEAN : WaitReturn(r, mined)

\* one step of the handler of r: the call it awaits settles
HandlerStep(r) ==
  \/ Fetched(r)
  \/ Extracted(r)
  \/ Searched(r)
  \/ Scored(r)
  \/ Biased(r)
  \/ Submitted(r)
  \/ Waited(r)

Next == \E r \in Requests : Deliver(r) \/ HandlerStep(r)

Spec == Init /\ [][Next]_vars

\* ------------------------------------------------------------------------
\* One request on its own, the services answering in every shape that the
\* helpers tell apart
\* ------------------------------------------------------------------------

ExtractedAny(r) ==
  /\ pc[r] = "extract"
  /\ \E reply \in AllExtractReplies(PendingArg(r, "extract")) : ExtractReturn(r, reply)

SearchedAny(r) == \E reply \in AllSearchReplies : SearchReturn(r, reply)

ScoredAny(r) ==
  /\ pc[r] = "score"
  /\ \E reply \in AllScoreReplies(PendingArg(r, "score").claim) : ScoreReturn(r, reply)

BiasedAny(r) == \E reply \in AllBiasReplies : BiasReturn(r, reply)

SoloStep(r) ==
  \/ Fetched(r)
  \/ ExtractedAny(r)
  \/ SearchedAny(r)
  \/ ScoredAny(r)
  \/ BiasedAny(r)
  \/ Submitted(r)
  \/ Waited(r)

SoloNext == Deliver(1) \/ SoloStep(1)

SoloSpec == Init /\ [][SoloNext]_vars

\* every external call is answered in the end, with a result or an error:
\* the handler that awaits one takes its next step
FairSoloSpec == SoloSpec /\ WF_vars(SoloStep(1))

\* ------------------------------------------------------------------------
\* scoreClaim on its own: one number, spelled in each of the three ways the
\* prompt and JSON allow
\* ------------------------------------------------------------------------

MaxIntDigits  == 2
MaxFracDigits == 1

NumeralDigits == {"0", "3", "7"}

DigitStrings(lo, hi) == UNION { [1..k -> NumeralDigits] : k \in lo..hi }

\* the numerals fed in: an optional sign, integer digits, an optional fraction
Numerals ==
  { sign \o int \o frac :
      sign \in {<<>>, <<"-">>},
      int  \in DigitStrings(1, MaxIntDigits),
      frac \in {<<>>} \cup { <<DOT>> \o ds : ds \in DigitStrings(1, MaxFracDigits) } }

BrokerOk(text) == [status |-> 200, data |-> BrokerData(text)]

\* {"Fact_score": n}
SpellBare(n) == <<LB, DQ, "Fact_score", DQ, ":", " ">> \o n \o <<RB>>

\* {'Fact_score': n%}
SpellPercent(n) == <<LB, SQ, "Fact_score", SQ, ":", " ">> \o n \o <<PCT, RB>>

\* {'Fact_score': "n%"}
SpellQuoted(n) == <<LB, SQ, "Fact_score", SQ, ":", " ", DQ>> \o n \o <<PCT, DQ, RB>>

ParseInit ==
  /\ Idle
  /\ OffChain
  /\ pin \in Numerals
  /\ pstep = "input"
  /\ pout = <<>>

ReplyBare ==
  /\ pstep = "input"
  /\ pstep' = "bare"
  /\ pout' = scoreClaim(BrokerOk(SpellBare(pin)))
  /\ UNCHANGED <<onchain, pin, listening, cache, delivered, pc, frame, calls, txs, errlog>>

ReplyPercent ==
  /\ pstep = "input"
  /\ pstep' = "percent"
  /\ pout' = scoreClaim(BrokerOk(SpellPercent(pin)))
  /\ UNCHANGED <<onchain, pin, listening, cache, delivered, pc, frame, calls, txs, errlog>>

ReplyQuoted ==
  /\ pstep = "input"
  /\ pstep' = "quoted"
  /\ pout' = scoreClaim(BrokerOk(SpellQuoted(pin)))
  /\ UNCHANGED <<onchain, pin, listening, cache, delivered, pc, frame, calls, txs, errlog>>

ParseNext == ReplyBare \/ ReplyPercent \/ ReplyQuoted

ParseSpec == ParseInit /\ [][ParseNext]_vars

\* ------------------------------------------------------------------------
\* The aggregation of handleArticle on its own: a list of scored claims
\* ------------------------------------------------------------------------

MaxScores == 3

\* score strings as scoreClaim returns them, each with its value in
\* hundredths of a percent (-1: the string is no number)
SampleScores ==
  << [score |-> <<"8", "0", PCT>>,      hundredths |-> 8000],
     [score |-> <<"6", "0", PCT>>,      hundredths |-> 6000],
     [score |-> <<"9", "7", PCT>>,      hundredths |-> 9700],
     [score |-> <<"0", PCT>>,           hundredths |-> 0],
     [score |-> <<"7", DOT, "5", PCT>>, hundredths |-> 750],
     [score |-> <<"high", PCT>>,        hundredths |-> -1] >>

\* the scored list that picks the given samples
ScoredOf(picks) ==
  [i \in 1..Len(picks) |->
     [claim |-> JStr(<<"claim">>), score |-> SampleScores[picks[i]].score]]

AggInit ==
  /\ Idle
  /\ OffChain
  /\ pin \in UNION { [1..k -> 1..Len(SampleScores)] : k \in 0..MaxScores }
  /\ pstep = "input"
  /\ pout = <<>>

Aggregate ==
  /\ pstep = "input"
  /\ pstep' = "overall"
  /\ pout' = OverallScore(ScoredOf(pin))
  /\ UNCHANGED <<onchain, pin, listening, cache, delivered, pc, frame, calls, txs, errlog>>

AggNext == Aggregate

AggSpec == AggInit /\ [][AggNext]_vars

\* ------------------------------------------------------------------------
\* Start-up: the configuration check, the listener, and the first events
\* ------------------------------------------------------------------------

EnvVars ==
  {"ALCHEMY_URL", "WALRUS_GATEWAY_URL", "RELAYER_PRIVATE_KEY", "FACTCHECK_CONTRACT",
   "BROKER_URL", "DEEPSEEK_PROVIDER", "SERPAPI_KEY"}

\* a variable of process.env is not there, or is a string, empty or not
EnvValues == {"undefined", "", "value"}

\* !X for a variable of process.env
Unset(env, v) == env[v] \in {"undefined", ""}

\* the check leaves out the gateway url
ConfigMissingNoGateway(env) ==
  Unset(env, "ALCHEMY_URL") \/ Unset(env, "RELAYER_PRIVATE_KEY")
    \/ Unset(env, "FACTCHECK_CONTRACT")

\* line 23
ConfigMissing(env) ==
  Unset(env, "ALCHEMY_URL") \/ Unset(env, "RELAYER_PRIVATE_KEY")
    \/ Unset(env, "FACTCHECK_CONTRACT") \/ Unset(env, "WALRUS_GATEWAY_URL")

\* the process has been launched with some environment; nothing has run yet
StartInit ==
  /\ OffChain
  /\ listening = FALSE
  /\ cache = {}
  /\ delivered = {}
  /\ pc = [r \in Requests |-> "idle"]
  /\ frame = [r \in Requests |-> NoFrame]
  /\ calls = [r \in Requests |-> <<>>]
  /\ txs = [r \in Requests |-> <<>>]
  /\ errlog = {}
  /\ pin \in [EnvVars -> EnvValues]
  /\ pstep = "boot"
  /\ pout = <<>>

\* the module body runs: process.exit(1) on a missing variable (pout is the
\* exit status), else the contracts are set up and the listener registered
Startup ==
  /\ pstep = "boot"
  /\ IF ConfigMissing(pin)
     THEN /\ pstep' = "exited"
          /\ pout' = <<1>>
          /\ listening' = FALSE
     ELSE /\ pstep' = "listening"
          /\ pout' = <<>>
          /\ listening' = TRUE
  /\ UNCHANGED <<onchain, pin, cache, delivered, pc, frame, calls, txs, errlog>>

\* after start-up the events come in and the handlers fetch their articles
StartNext == Startup \/ \E r \in Requests : Deliver(r) \/ Fetched(r)

StartSpec == StartInit /\ [][StartNext]_vars

\* ------------------------------------------------------------------------
\* The three broker helpers on their own: one text of the model, carried in
\* response.content and carried in result
\* ------------------------------------------------------------------------

LegacyOk(text) == [status |-> 200, data |-> LegacyData(text)]

\* texts of the kinds the model sends: claims, scores, bias scores, prose
ShapeTexts ==
  { ExtractText(ArticleAt(u), k) : u \in URIs, k \in 0..MaxClaims }
  \cup { SpellPercent(n) : n \in Numerals }
  \cup { ScoreSpellings[i] : i \in 1..Len(ScoreSpellings) }
  \cup BiasTexts
  \cup ClaimsNotArray
  \cup { NoJsonText, StrayBraces, UnparsableClaims, BiasOtherField }

ShapeInit ==
  /\ Idle
  /\ OffChain
  /\ pin \in ShapeTexts
  /\ pstep = "input"
  /\ pout = <<>>

ExtractShapes ==
  /\ pstep = "input"
  /\ pstep' = "extract"
  /\ pout' = [content |-> extractClaims(BrokerOk(pin)),
              result  |-> extractClaims(LegacyOk(pin))]
  /\ UNCHANGED <<onchain, pin, listening, cache, delivered, pc, frame, calls, txs, errlog>>

ScoreShapes ==
  /\ pstep = "input"
  /\ pstep' = "score"
  /\ pout' = [content |-> scoreClaim(BrokerOk(pin)),
              result  |-> scoreClaim(LegacyOk(pin))]
  /\ UNCHANGED <<onchain, pin, listening, cache, delivered, pc, frame, calls, txs, errlog>>

BiasShapes ==
  /\ pstep = "input"
  /\ pstep' = "bias"
  /\ pout' = [content |-> computeBiasScore(BrokerOk(pin)),
              result  |-> computeBiasScore(LegacyOk(pin))]
  /\ UNCHANGED <<onchain, pin, listening, cache, delivered, pc, frame, calls, txs, errlog>>

ShapeNext == ExtractShapes \/ ScoreShapes \/ BiasShapes

ShapeSpec == ShapeInit /\ [][ShapeNext]_vars

\* ------------------------------------------------------------------------
\* Properties of the pipeline (specification Spec)
\* ------------------------------------------------------------------------

\* the positions in the call log of r of the calls of one kind
CallsOf(r, kind) == {i \in 1..Len(calls[r]) : calls[r][i].call = kind}

\* the claims the extraction of r returned; <<>> before it has returned
ExtractedClaims(r) ==
  IF \E i \in CallsOf(r, "extract") : calls[r][i].st = "ok"
  THEN calls[r][CHOOSE i \in CallsOf(r, "extract") : calls[r][i].st = "ok"].ret
  ELSE <<>>

\* the transaction as the handler handed it to the wallet
AsSubmitted(tx) == [tx EXCEPT !.mined = FALSE]

\* C1: for every delivered event the handler submits at most one
\* fulfillFactCheck transaction; it carries the event's requestId; and it is
\* submitted only after the fetch, the extraction, the search and the scoring
\* of every extracted claim, and the bias stage of that request all succeeded.
C1_OneFulfilmentAfterAllStages ==
  \A r \in Requests :
    /\ Cardinality(CallsOf(r, "submit")) <= 1
    /\ Len(txs[r]) <= 1
    /\ r \notin delivered => calls[r] = <<>> /\ txs[r] = <<>>
    /\ \A k \in 1..Len(txs[r]) :
         \E i \in CallsOf(r, "submit") :
           calls[r][i].st = "ok" /\ calls[r][i].arg = AsSubmitted(txs[r][k])
    /\ \A i \in CallsOf(r, "submit") :
         /\ IdOfString(calls[r][i].arg.requestId) = r
         /\ \A j \in 1..(i - 1) : calls[r][j].st = "ok"
         /\ \E j \in 1..(i - 1) : calls[r][j].call = "fetch"
         /\ \E j \in 1..(i - 1) : calls[r][j].call = "extract"
         /\ \E j \in 1..(i - 1) : calls[r][j].call = "bias"
         /\ \A c \in 1..Len(ExtractedClaims(r)) :
              /\ \E j \in 1..(i - 1) :
                   calls[r][j].call = "search" /\ calls[r][j].arg = ExtractedClaims(r)[c]
              /\ \E j \in 1..(i - 1) :
                   calls[r][j].call = "score"
                     /\ calls[r][j].arg.claim = ExtractedClaims(r)[c]

\* a request with two claims has been fulfilled on-chain
C1_Witness ==
  \E r \in Requests :
    /\ Len(txs[r]) = 1
    /\ txs[r][1].mined
    /\ Len(ExtractedClaims(r)) >= 2

\* C4: if the blob-store GET of a request does not return status 200, the
\* handler issues no call to the broker or the search API for that request
\* and no fulfilment transaction is submitted.
C4_FetchFailureAbortsFirst ==
  \A r \in Requests :
    \A i \in CallsOf(r, "fetch") :
      (calls[r][i].st # "pending" /\ calls[r][i].reply.status # 200)
        => /\ Len(calls[r]) = 1
           /\ txs[r] = <<>>
           /\ pc[r] = "failed"

\* the blob store answered 404 and the request is over
C4_Witness ==
  \E r \in Requests :
    /\ Len(calls[r]) = 1
    /\ calls[r][1].reply.status = 404
    /\ pc[r] = "failed"

\* the stage that stands at position i of the call log of a request whose
\* extraction returned n claims
StageAt(n, i) ==
  IF i = 1 THEN "fetch"
  ELSE IF i = 2 THEN "extract"
  ELSE IF i <= 2 + 2 * n THEN (IF i % 2 = 1 THEN "search" ELSE "score")
  ELSE IF i = 3 + 2 * n THEN "bias"
  ELSE IF i = 4 + 2 * n THEN "submit"
  ELSE IF i = 5 + 2 * n THEN "wait"
  ELSE "none"

\* C5: within one request the external calls happen in the order fetch,
\* extraction, then for each claim in extraction order its search and its
\* scoring, then one bias call on the full article, then the submission; a
\* call starts only after the one before it returned successfully, so no two
\* are in progress at once.
C5_StrictStageOrder ==
  \A r \in Requests :
    \E claims \in {ExtractedClaims(r)} :
      \A i \in 1..Len(calls[r]) :
        /\ calls[r][i].call = StageAt(Len(claims), i)
        /\ i < Len(calls[r]) => calls[r][i].st = "ok"
        /\ calls[r][i].call = "search"
             => calls[r][i].arg = claims[(i - 1) \div 2]
        /\ calls[r][i].call = "score"
             => calls[r][i].arg.claim = claims[(i - 2) \div 2]
        /\ calls[r][i].call = "bias" => calls[r][i].arg = calls[r][1].ret

\* a request with two claims went through every stage, the confirmation too
C5_Witness ==
  \E r \in Requests :
    /\ Len(ExtractedClaims(r)) = 2
    /\ Len(calls[r]) = 5 + 2 * Len(ExtractedClaims(r))
    /\ pc[r] = "done"

\* the sentences of the article of request r, as claims
OwnClaims(r) == { JStr(<<ArticleAt(EventUri(r))[s]>>) : s \in 1..MaxClaims }

\* the returns of the calls of one kind that request r made, in order
RECURSIVE ReturnsFrom(_, _, _)
ReturnsFrom(r, kind, i) ==
  IF i > Len(calls[r]) THEN <<>>
  ELSE (IF calls[r][i].call = kind /\ calls[r][i].st = "ok"
        THEN <<calls[r][i].ret>> ELSE <<>>) \o ReturnsFrom(r, kind, i + 1)

\* the call at position i of the log of r has its input from r's own event
\* and article, and what r submits is built from r's own calls
OwnCall(r, i) ==
  CASE calls[r][i].call = "fetch"   -> calls[r][i].arg = Url(EventUri(r))
    [] calls[r][i].call = "extract" -> calls[r][i].arg = ArticleAt(EventUri(r))
    [] calls[r][i].call = "search"  -> calls[r][i].arg \in OwnClaims(r)
    [] calls[r][i].call = "score"   -> calls[r][i].arg.claim \in OwnClaims(r)
    [] calls[r][i].call = "bias"    -> calls[r][i].arg = ArticleAt(EventUri(r))
    [] calls[r][i].call = "wait"    -> TRUE
    [] calls[r][i].call = "submit"  ->
         \E tx \in {calls[r][i].arg} : \E e \in {JSONParse(tx.explanation)} :
           /\ IdOfString(tx.requestId) = r
           /\ e.ok
           /\ Prop(e.val, "claims").t = "arr"
           /\ \A c \in 1..Len(Prop(e.val, "claims").v) :
                /\ Prop(Prop(e.val, "claims").v[c], "claim") \in OwnClaims(r)
                /\ c <= Len(ReturnsFrom(r, "score", 1))
                /\ Prop(Prop(e.val, "claims").v[c], "score")
                     = JStr(ReturnsFrom(r, "score", 1)[c])
           /\ Prop(e.val, "biasScore") = JStr(ReturnsFrom(r, "bias", 1)[1])
           /\ tx.verdict
                = OverallScore([c \in 1..Len(ReturnsFrom(r, "score", 1)) |->
                                  [claim |-> JNull, score |-> ReturnsFrom(r, "score", 1)[c]]])

C2State ==
  /\ cache = {}
  /\ \A r \in Requests :
       /\ r \in delivered => frame[r].requestId = r /\ frame[r].uri = EventUri(r)
       /\ r \notin delivered => frame[r] = NoFrame /\ calls[r] = <<>>
       /\ \A i \in 1..Len(calls[r]) : OwnCall(r, i)
       /\ \A k \in 1..Len(txs[r]) :
            \E i \in CallsOf(r, "submit") : calls[r][i].arg = AsSubmitted(txs[r][k])

\* a step that is not of the handler of r leaves everything of r as it was
C2Step ==
  /\ cache' = cache
  /\ \A r \in Requests :
       calls'[r] = calls[r]
         => frame'[r] = frame[r] /\ pc'[r] = pc[r] /\ txs'[r] = txs[r]

\* C2: with the handlers of different requests interleaving at every awaited
\* call, every call of a request has its input from that request's own uri and
\* article, the transaction of a request carries its own id and the claims,
\* scores, overall score and bias score of its own calls, a step of one
\* handler changes nothing of another, and the process-wide cache stays empty.
C2_NoCrossTalk == []C2State /\ [][C2Step]_vars

\* one request has its transaction out while another, delivered too, is
\* scoring its second claim
C2_Witness ==
  \E r, q \in Requests :
    /\ r # q
    /\ pc[r] = "wait" /\ Len(txs[r]) = 1 /\ Len(ExtractedClaims(r)) >= 1
    /\ pc[q] = "score" /\ frame[q].idx = 2

C3State ==
  /\ listening
  /\ \A r \in Requests :
       /\ pc[r] = "failed" <=> \E i \in 1..Len(calls[r]) : calls[r][i].st = "error"
       /\ pc[r] = "failed"
            => /\ \E e \in errlog : e.id = IdToString(r)
               /\ \A i \in 1..Len(calls[r]) : calls[r][i].st # "pending"
               /\ \A k \in 1..Len(txs[r]) : ~txs[r][k].mined
       /\ pc[r] \notin {"idle", "done", "failed"} => ENABLED HandlerStep(r)
       /\ r \notin delivered => ENABLED Deliver(r)

\* once failed, a request stays as it is: no further call, no transaction
C3Step ==
  \A r \in Requests :
    pc[r] = "failed"
      => /\ pc'[r] = "failed"
         /\ calls'[r] = calls[r]
         /\ txs'[r] = txs[r]
         /\ r \in delivered'

\* C3: a stage of a request that throws ends the request: the listener's
\* catch logs the error with the request id, from then on the request makes
\* no call and submits no transaction, and the listener and the handlers of
\* the other requests can still take their next step.
C3_FailureDropsRequest == []C3State /\ [][C3Step]_vars

\* a request failed while scoring, another one is past its submission
C3_Witness ==
  \E r, q \in Requests :
    /\ r # q
    /\ pc[r] = "failed" /\ calls[r][Len(calls[r])].call = "score"
    /\ pc[q] = "wait"

\* C6: the verdict of every submitted transaction is the overallScore of its
\* explanation, the explanation's claims are the extracted claims in
\* extraction order, each with the score its scoring call returned, and its
\* biasScore is what the bias call returned; one claim scored 97% with bias
\* 5% gives the verdict 97.00%.
C6_ExplanationMatchesStages ==
  \A r \in Requests :
    \A i \in CallsOf(r, "submit") :
      \E tx \in {calls[r][i].arg} : \E e \in {JSONParse(tx.explanation)} :
        /\ e.ok
        /\ Prop(e.val, "overallScore") = JStr(tx.verdict)
        /\ Prop(e.val, "claims").t = "arr"
        /\ \E listed \in {Prop(e.val, "claims").v}, claims \in {ExtractedClaims(r)} :
             /\ Len(listed) = Len(claims)
             /\ \A c \in 1..Len(claims) :
                  /\ Prop(listed[c], "claim") = claims[c]
                  /\ Prop(listed[c], "score") = JStr(calls[r][2 + 2 * c].ret)
        /\ Prop(e.val, "biasScore") = JStr(calls[r][i - 1].ret)
        /\ calls[r][i - 1].call = "bias"
        /\ (/\ Len(ExtractedClaims(r)) = 1
            /\ calls[r][4].ret = <<"9", "7", PCT>>
            /\ calls[r][i - 1].ret = <<"5", PCT>>)
             => /\ tx.verdict = <<"9", "7", DOT, "0", "0", PCT>>
                /\ tx.explanation
                     = <<LB, DQ, "claims", DQ, ":", "[", LB, DQ, "claim", DQ, ":", DQ>>
                         \o ExtractedClaims(r)[1].v
                         \o <<DQ, ",", DQ, "score", DQ, ":", DQ, "9", "7", PCT, DQ, RB, "]",
                              ",", DQ, "overallScore", DQ, ":",
                              DQ, "9", "7", DOT, "0", "0", PCT, DQ,
                              ",", DQ, "biasScore", DQ, ":", DQ, "5", PCT, DQ, RB>>

\* the transaction of a request with one claim, scored 97%, bias 5%, is mined
C6_Witness ==
  \E r \in Requests :
    /\ pc[r] = "done"
    /\ Len(ExtractedClaims(r)) = 1
    /\ txs[r][1].verdict = <<"9", "7", DOT, "0", "0", PCT>>
    /\ txs[r][1].mined

\* no "{" of the text has a "}" after it
NoBracePair(s) ==
  ~\E i, j \in 1..Len(s) : i < j /\ s[i] = LB /\ s[j] = RB

\* C10: when the reply to the scoring call of a claim holds no {...}, the
\* call fails and so does the request: the claim is not among the scored
\* ones, no bias call is made and no transaction is submitted, whatever was
\* scored before.
C10_NoJsonScoreAborts ==
  \A r \in Requests :
    \A i \in CallsOf(r, "score") :
      (/\ calls[r][i].st # "pending"
       /\ calls[r][i].reply.status = 200
       /\ calls[r][i].reply.data.content.t = "str"
       /\ NoBracePair(calls[r][i].reply.data.content.v))
        => /\ calls[r][i].st = "error"
           /\ i = Len(calls[r])
           /\ pc[r] = "failed"
           /\ CallsOf(r, "bias") = {}
           /\ CallsOf(r, "submit") = {}
           /\ txs[r] = <<>>
           /\ Len(frame[r].scored) = (i - 4) \div 2
           /\ \A k \in 1..Len(frame[r].scored) :
                frame[r].scored[k].claim # calls[r][i].arg.claim

\* the first claim was scored, the reply for the second has its braces the
\* wrong way round
C10_Witness ==
  \E r \in Requests :
    /\ Len(calls[r]) = 6
    /\ calls[r][4].st = "ok"
    /\ calls[r][6].call = "score"
    /\ calls[r][6].st = "error"
    /\ calls[r][6].reply.data.content.v = StrayBraces
    /\ Len(frame[r].scored) = 1

\* ------------------------------------------------------------------------
\* Properties of the aggregation (specification AggSpec)
\* ------------------------------------------------------------------------

\* the sum of the picked samples, in hundredths of a percent
RECURSIVE SumHundredths(_, _)
SumHundredths(picks, k) ==
  IF k = 0 THEN 0 ELSE SumHundredths(picks, k - 1) + SampleScores[picks[k]].hundredths

AllNumeric(picks) == \A i \in 1..Len(picks) : SampleScores[picks[i]].hundredths >= 0

\* str is digits, a dot, two digits and "%"
TwoDecimalPercent(str) ==
  /\ Len(str) >= 5
  /\ str[Len(str)] = PCT
  /\ str[Len(str) - 3] = DOT
  /\ \A i \in (1..(Len(str) - 4)) \cup {Len(str) - 2, Len(str) - 1} : IsDigit(str[i])
  /\ Len(str) > 5 => str[1] # "0"

\* what a string of that form says, in hundredths
HundredthsOf(str) ==
  100 * DigitsVal(str, 1, Len(str) - 4) + DigitsVal(str, Len(str) - 2, Len(str) - 1)

\* C7: for a non-empty list of numeric percent scores, overallScore is
\* digits, a dot, exactly two decimals and "%", and the number it spells is
\* the arithmetic mean of the scores rounded to the nearest hundredth; 80%
\* and 60% give 70.00%.
C7_OverallScoreIsMean ==
  (pstep = "overall" /\ pin # <<>> /\ AllNumeric(pin))
    => /\ TwoDecimalPercent(pout)
       /\ 2 * Abs(HundredthsOf(pout) * Len(pin) - SumHundredths(pin, Len(pin))) <= Len(pin)
       /\ pin = <<1, 2>> => pout = <<"7", "0", DOT, "0", "0", PCT>>

\* 80% and 60% have been averaged
C7_Witness ==
  /\ pstep = "overall"
  /\ ScoredOf(pin) = << [claim |-> JStr(<<"claim">>), score |-> <<"8", "0", PCT>>],
                        [claim |-> JStr(<<"claim">>), score |-> <<"6", "0", PCT>>] >>
  /\ pout = <<"7", "0", DOT, "0", "0", PCT>>

\* C8: the overallScore of the empty list of scored claims is 0.00%.
C8_EmptyListIsZero ==
  (pstep = "overall" /\ pin = <<>>) => pout = <<"0", DOT, "0", "0", PCT>>

\* the empty list has been aggregated
C8_Witness ==
  /\ pstep = "overall"
  /\ ScoredOf(pin) = <<>>
  /\ pout = <<"0", DOT, "0", "0", PCT>>

\* ------------------------------------------------------------------------
\* Properties of scoreClaim's parsing (specification ParseSpec)
\* ------------------------------------------------------------------------

\* the numeral is the one JavaScript prints for its value: no leading zero
\* before another integer digit, no trailing zero in the fraction, no -0
CanonicalNumeral(n) ==
  \E b \in {IF n[1] = "-" THEN 2 ELSE 1} : \E il \in {DigitRun(n, b)} :
    /\ il = 1 \/ n[b] # "0"
    /\ n[Len(n)] # "0" \/ b + il > Len(n)
    /\ b = 2 => \E i \in b..Len(n) : IsDigit(n[i]) /\ n[i] # "0"

\* C9 as stated: every numeral n, in each of the three spellings, comes out
\* of scoreClaim as n followed by one "%".
C9_AnyNumeral ==
  pstep \in {"bare", "percent", "quoted"} => pout = Ok(pin \o <<PCT>>)

\* C9: for a number n written the way JavaScript prints it, the contents
\* {"Fact_score": n}, {'Fact_score': n%} and {'Fact_score': "n%"} all come
\* out of scoreClaim as n followed by exactly one "%".
C9_CanonicalNumeral ==
  (pstep \in {"bare", "percent", "quoted"} /\ CanonicalNumeral(pin))
    => pout = Ok(pin \o <<PCT>>)

\* 73 written as a quoted percentage came out as 73%
C9_Witness ==
  /\ pstep = "quoted"
  /\ pin = <<"7", "3">>
  /\ pout = Ok(<<"7", "3", PCT>>)

\* ------------------------------------------------------------------------
\* Properties of the stages' error handling (specification SoloSpec)
\* ------------------------------------------------------------------------

\* the reply is a 200 of the new style with a string as its content
TextReply(reply) ==
  /\ reply.status = 200
  /\ reply.data.success
  /\ reply.data.response
  /\ reply.data.content.t = "str"

\* the text holds no JSON object with a claims array: no braces, no JSON
\* between its outermost braces, or an object whose claims is no array
NoClaimsArray(s) ==
  \/ NoBracePair(s)
  \/ \E obj \in {JSONParse(GreedyMatchBraces(s))} :
       ~obj.ok \/ Prop(obj.val, "claims").t # "arr"

\* C11: when the extraction reply holds no JSON object, text that is no
\* JSON, or an object whose claims is not an array, extractClaims fails and
\* the request ends there: the extraction stays its last call (no search,
\* scoring or bias call) and no transaction is submitted.
C11_BadExtractionAborts ==
  \A r \in Requests :
    \A i \in CallsOf(r, "extract") :
      (/\ calls[r][i].st # "pending"
       /\ TextReply(calls[r][i].reply)
       /\ NoClaimsArray(calls[r][i].reply.data.content.v))
        => /\ calls[r][i].st = "error"
           /\ i = Len(calls[r])
           /\ CallsOf(r, "search") \cup CallsOf(r, "score") \cup CallsOf(r, "bias")
                \cup CallsOf(r, "submit") = {}
           /\ frame[r].claims = <<>>
           /\ txs[r] = <<>>
           /\ pc[r] = "failed"

\* the extraction answered with an object whose claims is a string
C11_Witness ==
  \E r \in Requests :
    /\ Len(calls[r]) = 2
    /\ calls[r][2].st = "error"
    /\ TextReply(calls[r][2].reply)
    /\ calls[r][2].reply.data.content.v
         = Stringify(JObj(<<[k |-> <<"claims">>, val |-> JStr(<<"none">>)]>>))
    /\ pc[r] = "failed"

\* C15: when the search reply for a claim has no total-result count (absent
\* or null), fetchTotalResults fails: the search stays the request's last
\* call, so the claim's scoring call is never issued, and the request ends
\* failed without a transaction.
C15_MissingCountAborts ==
  \A r \in Requests :
    \A i \in CallsOf(r, "search") :
      (/\ calls[r][i].st # "pending"
       /\ calls[r][i].reply.status = 200
       /\ calls[r][i].reply.data.total_results.t \in {"undef", "null"})
        => /\ calls[r][i].st = "error"
           /\ i = Len(calls[r])
           /\ \A j \in CallsOf(r, "score") : calls[r][j].arg.claim # calls[r][i].arg
           /\ Cardinality(CallsOf(r, "score")) = Cardinality(CallsOf(r, "search")) - 1
           /\ CallsOf(r, "submit") = {}
           /\ txs[r] = <<>>
           /\ pc[r] = "failed"

\* the first claim was scored, the search for the second came without a count
C15_Witness ==
  \E r \in Requests :
    /\ Len(calls[r]) = 5
    /\ calls[r][4].st = "ok"
    /\ calls[r][5].call = "search"
    /\ calls[r][5].st = "error"
    /\ calls[r][5].reply.status = 200
    /\ calls[r][5].reply.data.total_results.t = "null"

\* C16: scoreClaim goes on to parse a score only from a reply that reports
\* success and has a string as its content; on any other shape it throws
\* "Bad broker response format", the request ends failed with that error
\* logged, and no transaction is submitted.
C16_BrokerShapeChecked ==
  \A r \in Requests :
    \A i \in CallsOf(r, "score") :
      (calls[r][i].st # "pending" /\ calls[r][i].reply.status = 200)
        => /\ calls[r][i].st = "ok" => TextReply(calls[r][i].reply)
           /\ ~TextReply(calls[r][i].reply)
                => /\ calls[r][i].st = "error"
                   /\ [id |-> IdToString(r), msg |-> "Bad broker response format"]
                        \in errlog
                   /\ i = Len(calls[r])
                   /\ CallsOf(r, "submit") = {}
                   /\ txs[r] = <<>>
                   /\ pc[r] = "failed"

\* the broker reported a failure along with a well-formed score
C16_Witness ==
  \E r \in Requests :
    /\ pc[r] = "failed"
    /\ calls[r][Len(calls[r])].call = "score"
    /\ calls[r][Len(calls[r])].reply.status = 200
    /\ ~calls[r][Len(calls[r])].reply.data.success
    /\ calls[r][Len(calls[r])].reply.data.content = JStr(ScoreSpellings[1])

\* what computeBiasScore reads the bias score from: the bias_score member of
\* the first {...} of the text, quotes and percent signs normalised
BiasField(s) ==
  \E obj \in {JSONParse(Trim(RemoveAll(ReplaceAll(MatchBraces(s), SQ, DQ), PCT)))} :
    obj.ok /\ Prop(obj.val, "bias_score").t \in {"num", "str"}

\* C13 as stated: a bias reply without {...}, or whose object has no number
\* or string as bias_score, fails the bias stage, and no transaction carries
\* a biasScore such as undefined%.
C13_BiasParsedLikeScore ==
  \A r \in Requests :
    /\ \A i \in CallsOf(r, "bias") :
         (/\ calls[r][i].st # "pending"
          /\ TextReply(calls[r][i].reply)
          /\ (NoBracePair(calls[r][i].reply.data.content.v)
                \/ ~BiasField(calls[r][i].reply.data.content.v)))
           => /\ calls[r][i].st = "error"
              /\ CallsOf(r, "submit") = {}
              /\ pc[r] = "failed"
    /\ \A i \in CallsOf(r, "submit") :
         \E e \in {JSONParse(calls[r][i].arg.explanation)} :
           Prop(e.val, "biasScore") # JStr(<<"undefined", PCT>>)

\* ------------------------------------------------------------------------
\* The number of claims (specification Spec)
\* ------------------------------------------------------------------------

\* C12 as stated: whatever the claims array of the extraction reply, at most
\* one claim of a request is searched, scored and put in the explanation.
C12_AtMostOneClaim ==
  \A r \in Requests :
    /\ Cardinality(CallsOf(r, "search")) <= 1
    /\ Cardinality(CallsOf(r, "score")) <= 1
    /\ Len(frame[r].scored) <= 1
    /\ \A i \in CallsOf(r, "submit") :
         \E e \in {JSONParse(calls[r][i].arg.explanation)} :
           Len(Prop(e.val, "claims").v) <= 1

\* ------------------------------------------------------------------------
\* The two shapes of a broker reply (specification ShapeSpec)
\* ------------------------------------------------------------------------

\* C14 as stated: for each of the three broker helpers, a text that the
\* helper accepts in response.content it accepts in result only as well, with
\* the same result.
C14_LegacyShapeAccepted ==
  (pstep \in {"extract", "score", "bias"} /\ pout.content.ok)
    => pout.result = pout.content

\* ------------------------------------------------------------------------
\* Completion, concurrency and termination (specifications Spec and
\* FairSoloSpec)
\* ------------------------------------------------------------------------

InFlight   == {"fetch", "extract", "search", "score", "bias", "submit", "wait"}
Terminated == {"done", "failed"}

\* the calls of r that have not settled yet
PendingCalls(r) == {i \in 1..Len(calls[r]) : calls[r][i].st = "pending"}

C17State ==
  \A r \in Requests :
    /\ pc[r] = "done"
         => /\ Len(txs[r]) = 1
            /\ txs[r][1].mined
            /\ calls[r][Len(calls[r])].call = "wait"
            /\ calls[r][Len(calls[r])].st = "ok"
    /\ \A i \in CallsOf(r, "wait") :
         calls[r][i].st = "error"
           => /\ pc[r] = "failed"
              /\ [id |-> IdToString(r), msg |-> "transaction reverted"] \in errlog
              /\ ~txs[r][1].mined

\* the step that completes a request is the one in which the wait for its
\* transaction, submitted before, resolves
C17Step ==
  \A r \in Requests :
    /\ (pc'[r] = "done" /\ pc[r] # "done")
         => /\ pc[r] = "wait"
            /\ Len(txs[r]) = 1
            /\ ~txs[r][1].mined
            /\ txs'[r][1].mined
    /\ pc[r] = "failed" => pc'[r] # "done"

\* C17: a request is complete only once its transaction is confirmed: it
\* becomes complete in the step in which the wait for the transaction it
\* submitted before resolves, and a failed wait ends it as failed, logged,
\* and never complete.
C17_CompleteAfterConfirmation == []C17State /\ [][C17Step]_vars

\* one request is complete, the wait of another has failed
C17_Witness ==
  \E r, q \in Requests :
    /\ pc[r] = "done" /\ txs[r][1].mined
    /\ pc[q] = "failed"
    /\ calls[q][Len(calls[q])].call = "wait"
    /\ ~txs[q][1].mined

\* C18: nothing holds a request back because of another: an event not yet
\* delivered can be delivered whatever the handlers are doing, a handler can
\* submit its transaction and have it confirmed while the transactions of
\* others are unconfirmed, and there are as many calls under way as handlers
\* in flight.
C18_NoAdmissionControl ==
  /\ \A r \in Requests :
       /\ r \notin delivered => ENABLED Deliver(r)
       /\ pc[r] = "submit" => ENABLED SubmitReturn(r, TRUE)
       /\ pc[r] = "wait" => ENABLED WaitReturn(r, TRUE)
       /\ Cardinality(PendingCalls(r)) = IF pc[r] \in InFlight THEN 1 ELSE 0
  /\ Cardinality({r \in delivered : pc[r] \in InFlight})
       = Cardinality({<<r, i>> \in Requests \X (1..(5 + 2 * MaxClaims)) :
                        i \in PendingCalls(r)})

\* every request is in flight, and two of them have their transaction
\* submitted and not yet confirmed
C18_Witness ==
  /\ \A r \in Requests : pc[r] \in InFlight
  /\ \E r, q \in Requests :
       /\ r # q
       /\ pc[r] = "wait" /\ Len(txs[r]) = 1 /\ ~txs[r][1].mined
       /\ pc[q] = "wait" /\ Len(txs[q]) = 1 /\ ~txs[q][1].mined

C19State ==
  \A r \in Requests :
    /\ pc[r] \in {"idle"} \cup InFlight \cup Terminated
    /\ pc[r] = "idle" <=> r \notin delivered
    /\ pc[r] \in InFlight
         <=> (PendingCalls(r) = {Len(calls[r])} /\ calls[r] # <<>>)
    /\ pc[r] \in Terminated <=> (calls[r] # <<>> /\ PendingCalls(r) = {})
    /\ pc[r] = "done" <=> (txs[r] # <<>> /\ txs[r][1].mined)
    /\ pc[r] = "failed" <=> \E e \in errlog : e.id = IdToString(r)

\* a terminated request stays terminated, the way it did
C19Step == \A r \in Requests : pc[r] \in Terminated => pc'[r] = pc[r]

\* C19: a delivered request is either in flight, one call of one stage under
\* way, or terminated, fulfilled on-chain or failed; with every external
\* call answered in the end, every delivered request terminates; and a
\* terminated request stays terminated.
C19_EveryRequestTerminates ==
  /\ []C19State
  /\ [][C19Step]_vars
  /\ \A r \in Requests : (r \in delivered) ~> (pc[r] \in Terminated)

\* a delivered request has terminated, fulfilled, with no call left open
C19_Witness ==
  \E r \in delivered :
    /\ pc[r] \in Terminated
    /\ PendingCalls(r) = {}
    /\ txs[r] # <<>>
    /\ txs[r][1].mined

\* ------------------------------------------------------------------------
\* Start-up (specification StartSpec)
\* ------------------------------------------------------------------------

Required == {"ALCHEMY_URL", "WALRUS_GATEWAY_URL", "RELAYER_PRIVATE_KEY", "FACTCHECK_CONTRACT"}

\* C20: with one of ALCHEMY_URL, WALRUS_GATEWAY_URL, RELAYER_PRIVATE_KEY and
\* FACTCHECK_CONTRACT missing the process exits with status 1 and the
\* listener is never registered: no event is handled, no call made and no
\* transaction submitted; with the four set, start-up goes through and the
\* listener is registered whether or not BROKER_URL, DEEPSEEK_PROVIDER and
\* SERPAPI_KEY are set.
C20_StartupConfigCheck ==
  /\ pstep = "boot" => ~listening /\ delivered = {}
  /\ (pstep # "boot" /\ \E v \in Required : pin[v] \in {"undefined", ""})
       => /\ pstep = "exited"
          /\ pout = <<1>>
          /\ ~listening
          /\ delivered = {}
          /\ \A r \in Requests : calls[r] = <<>> /\ txs[r] = <<>> /\ pc[r] = "idle"
  /\ (pstep # "boot" /\ \A v \in Required : pin[v] = "value")
       => /\ pstep = "listening"
          /\ pout = <<>>
          /\ listening
  /\ delivered # {} => listening

\* the process has exited for want of the gateway url alone
C20_Witness ==
  /\ pstep = "exited"
  /\ pin["WALRUS_GATEWAY_URL"] = "undefined"
  /\ \A v \in EnvVars \ {"WALRUS_GATEWAY_URL"} : pin[v] = "value"

\* ------------------------------------------------------------------------
\* An article without claims (specification SoloSpec)
\* ------------------------------------------------------------------------

ZeroPercent == <<"0", DOT, "0", "0", PCT>>

\* the text holds a JSON object whose claims member is the empty array
EmptyClaimsArray(s) ==
  /\ ~NoBracePair(s)
  /\ \E obj \in {JSONParse(GreedyMatchBraces(s))} :
       obj.ok /\ Prop(obj.val, "claims") = JArr(<<>>)

\* C21: when the extraction succeeds with an empty claims array, the handler
\* issues no search and no scoring call, issues the bias call once, right
\* after the extraction, and the transaction it submits has the verdict
\* 0.00% and an explanation with an empty claims list; the request is
\* dropped only when the bias call or the transaction fails.
C21_NoClaimsIsFulfilled ==
  \A r \in Requests :
    \A i \in CallsOf(r, "extract") :
      (/\ calls[r][i].st # "pending"
       /\ TextReply(calls[r][i].reply)
       /\ EmptyClaimsArray(calls[r][i].reply.data.content.v))
        => /\ calls[r][i].st = "ok" /\ calls[r][i].ret = <<>>
           /\ CallsOf(r, "search") = {} /\ CallsOf(r, "score") = {}
           /\ CallsOf(r, "bias") = {i + 1}
           /\ calls[r][i + 1].st = "ok" => CallsOf(r, "submit") = {i + 2}
           /\ \A j \in CallsOf(r, "submit") :
                /\ calls[r][j].arg.verdict = ZeroPercent
                /\ \E e \in {JSONParse(calls[r][j].arg.explanation)} :
                     /\ e.ok
                     /\ Prop(e.val, "claims") = JArr(<<>>)
                     /\ Prop(e.val, "overallScore") = JStr(ZeroPercent)
           /\ \A k \in 1..Len(txs[r]) : txs[r][k].verdict = ZeroPercent
           /\ pc[r] = "failed"
                => \E j \in (i + 1)..Len(calls[r]) :
                     calls[r][j].call \in {"bias", "submit", "wait"}
                       /\ calls[r][j].st = "error"
           /\ pc[r] = "done" => Len(txs[r]) = 1 /\ txs[r][1].mined

\* a request whose extraction returned no claim has been fulfilled on-chain
C21_Witness ==
  \E r \in Requests :
    /\ \E i \in CallsOf(r, "extract") : calls[r][i].st = "ok" /\ calls[r][i].ret = <<>>
    /\ Len(txs[r]) = 1
    /\ txs[r][1].mined
    /\ txs[r][1].verdict = ZeroPercent
    /\ pc[r] = "done"

\* ------------------------------------------------------------------------
\* The contracts.  chain is the storage of the contract under study (and of
\* the contracts it calls), its event log and the block time; every action
\* is one transaction, which either goes through or reverts and leaves the
\* storage as it was.
\* ------------------------------------------------------------------------

Users == {"alice", "bob"}

\* a transaction that went through: receipt keeps its function and result
Done(fn, c, ret) ==
  /\ chain' = c
  /\ receipt' = [fn |-> fn, ret |-> ret]
  /\ UNCHANGED <<relayer, pure>>

\* a reverted transaction changes nothing
Reverted(fn, err) == UNCHANGED vars

\* a contract function: the storage after it and what it returns, or the
\* reason of its revert
Returns(c, ret) == [ok |-> TRUE, chain |-> c, ret |-> ret, err |-> ""]

Reverts(err) == [ok |-> FALSE, chain |-> Undeployed, ret |-> 0, err |-> err]

Transact(fn, res) ==
  IF res.ok THEN Done(fn, res.chain, res.ret) ELSE Reverted(fn, res.err)

Emit(c, event, args) == [c EXCEPT !.log = Append(@, [event |-> event, args |-> args])]

OffChainIdle ==
  /\ Idle
  /\ pin = <<>>
  /\ pstep = "none"
  /\ pout = <<>>
  /\ receipt = NoReceipt

\* ------------------------------------------------------------------------
\* FactChecker and FactCheckTest (specification CheckerSpec)
\* ------------------------------------------------------------------------

MaxRequestsMade == 3
MaxLog          == 4

\* the ids fulfillFactCheck is called with: requested or not
RequestIds == 0..(MaxRequestsMade + 1)

Verdicts == {"97.00%"}

NoResult == [fulfilled |-> FALSE, verdict |-> "", explanation |-> ""]

\* uint256 public nextRequestId = 1;
CheckerDeployed(name) ==
  [name |-> name, nextRequestId |-> 1, results |-> [id \in RequestIds |-> NoResult],
   log |-> <<>>]

\* the id is taken without the counter being moved on
requestFactCheckSameId(c, sender, uri) ==
  Returns(Emit(c, "FactCheckRequested", <<c.nextRequestId, sender, uri>>),
          c.nextRequestId)

\* uint256 id = nextRequestId++; emit FactCheckRequested(id, msg.sender, uri)
requestFactCheck(c, sender, uri) ==
  Returns(Emit([c EXCEPT !.nextRequestId = @ + 1],
               "FactCheckRequested", <<c.nextRequestId, sender, uri>>),
          c.nextRequestId)

\* FactChecker stores the result, FactCheckTest only emits the event
fulfillFactCheck(c, requestId, verdict, explanation) ==
  Returns(Emit(IF c.name = "FactChecker"
               THEN [c EXCEPT !.results[requestId] =
                       [fulfilled |-> TRUE, verdict |-> verdict,
                        explanation |-> explanation]]
               ELSE c,
               "FactCheckFulfilled", <<requestId, verdict, explanation>>),
          0)

\* FactCheckTest.testFactCheck: a request and its dummy fulfilment at once
testFactCheck(c, sender) ==
  Only({ fulfillFactCheck(req.chain, req.ret, "REFUTED", "Dummy") :
           req \in {requestFactCheck(c, sender, "The Eiffel Tower is in Berlin")} })

CheckerInit ==
  /\ OffChainIdle
  /\ chain \in {CheckerDeployed(name) : name \in {"FactChecker", "FactCheckTest"}}

RequestFactCheck ==
  \E sender \in Users, uri \in URIs :
    /\ chain.nextRequestId <= MaxRequestsMade
    /\ Len(chain.log) < MaxLog
    /\ Transact("requestFactCheck", requestFactCheck(chain, sender, uri))

FulfillFactCheck ==
  \E sender \in Users, requestId \in RequestIds, verdict \in Verdicts :
    /\ Len(chain.log) < MaxLog
    /\ Transact("fulfillFactCheck",
                fulfillFactCheck(chain, requestId, verdict, "explanation"))

TestFactCheck ==
  \E sender \in Users :
    /\ chain.name = "FactCheckTest"
    /\ chain.nextRequestId <= MaxRequestsMade
    /\ Len(chain.log) + 1 < MaxLog
    /\ Transact("testFactCheck",
                testFactCheck(chain, sender))

CheckerNext == RequestFactCheck \/ FulfillFactCheck \/ TestFactCheck

CheckerSpec == CheckerInit /\ [][CheckerNext]_vars

\* the FactCheckRequested events of the log, in the order of their emission
RequestedEvents == SelectSeq(chain.log, LAMBDA e : e.event = "FactCheckRequested")

C29State ==
  /\ \A i \in 1..Len(RequestedEvents) : RequestedEvents[i].args[1] = i
  /\ \A i, j \in 1..Len(RequestedEvents) :
       RequestedEvents[i].args[1] = RequestedEvents[j].args[1] => i = j
  /\ chain.nextRequestId - 1 = Len(RequestedEvents)

C29Step ==
  receipt'.fn = "fulfillFactCheck" => chain'.nextRequestId = chain.nextRequestId

\* C29: the FactCheckRequested events carry the ids 1, 2, 3, ... in the
\* order of their emission, so no two of them share an id, nextRequestId - 1
\* is the number of requests made, and a fulfillFactCheck transaction never
\* changes nextRequestId.
C29_RequestIdsIncrease == []C29State /\ [][C29Step]_vars

\* three requests were made and a result was stored between two of them
C29_Witness ==
  /\ chain.name = "FactChecker"
  /\ chain.nextRequestId = 4
  /\ Len(chain.log) = 4
  /\ chain.log[2].event = "FactCheckFulfilled"
  /\ chain.results[1].fulfilled

\* ------------------------------------------------------------------------
\* FactVoting (specification VotingSpec).  Amounts are counted in tokens
\* (10^18 of the token's smallest unit), time in days.
\* ------------------------------------------------------------------------

MaxTime == 9

VOTING_PERIOD       == 7
RESOLUTION_PERIOD   == 1
MIN_STAKE           == 1000
MAX_STAKE           == 100000
REWARD_POOL_PERCENTAGE == 80
SLASHING_PERCENTAGE == 20

\* the days on which blocks are mined: the day of deployment, and the days
\* from the end of a voting period started then
BlockTimes == {t \in 0..MaxTime : t = 0 \/ t >= VOTING_PERIOD}

Owner == "owner"

Voters == Users \cup {Owner}

\* the article storage knows one article; a call may name it or another id
Articles   == {1}
ArticleIds == {0, 1}

Positions == {"NONE", "TRUE", "FALSE"}

\* what each user holds when the contract is deployed; the owner holds nothing
InitialBalance == 3000

StakeAmounts == {0, MIN_STAKE, 2 * MIN_STAKE}

NoVoting ==
  [votingEndTime |-> 0, resolutionEndTime |-> 0, status |-> "NONE",
   finalVerdict |-> "NONE", proofHash |-> "", totalTrueStake |-> 0,
   totalFalseStake |-> 0, totalVotes |-> 0, emergencyCancelled |-> FALSE,
   resolver |-> ""]

\* address(0) is the empty string
NoVote == [voter |-> "", stake |-> 0, position |-> "NONE", timestamp |-> 0,
           claimed |-> FALSE]

VotingDeployed ==
  [name |-> "FactVoting", now |-> 0, owner |-> Owner,
   exists |-> [a \in ArticleIds |-> a \in Articles],
   articleVotings |-> [a \in ArticleIds |-> NoVoting],
   votes |-> [a \in ArticleIds |-> [v \in Voters |-> NoVote]],
   balances |-> [acct \in Voters \cup {"FactVoting"} |->
                   IF acct \in Users THEN InitialBalance ELSE 0]]

\* ERC20.transfer and transferFrom of the voting token: they revert when
\* the balance does not cover the amount (every voter has approved the
\* contract for any amount)
TokenMove(c, from, to, amount) ==
  [c EXCEPT !.balances = [acct \in DOMAIN @ |->
                            @[acct] - (IF acct = from THEN amount ELSE 0)
                                    + (IF acct = to THEN amount ELSE 0)]]

startVoting(c, sender, articleId) ==
  IF sender # c.owner THEN Reverts("Ownable: caller is not the owner")
  ELSE IF ~c.exists[articleId] THEN Reverts("Article does not exist")
  ELSE IF c.articleVotings[articleId].status # "NONE" THEN Reverts("Voting already exists")
  ELSE Returns([c EXCEPT !.articleVotings[articleId] =
                  [NoVoting EXCEPT !.votingEndTime = c.now + VOTING_PERIOD,
                                   !.resolutionEndTime = c.now + VOTING_PERIOD
                                                           + RESOLUTION_PERIOD,
                                   !.status = "ACTIVE"]], 0)

voteOnArticle(c, sender, articleId, position, stakeAmount) ==
  IF ~c.exists[articleId] THEN Reverts("Article does not exist")
  ELSE IF c.articleVotings[articleId].status # "ACTIVE" THEN Reverts("Voting not active")
  ELSE IF c.now > c.articleVotings[articleId].votingEndTime
    THEN Reverts("Voting period ended")
  ELSE IF position \notin {"TRUE", "FALSE"} THEN Reverts("Invalid vote position")
  ELSE IF ~(stakeAmount >= MIN_STAKE /\ stakeAmount <= MAX_STAKE)
    THEN Reverts("Invalid stake amount")
  ELSE IF c.votes[articleId][sender].voter # "" THEN Reverts("Already voted")
  ELSE IF c.balances[sender] < stakeAmount
    THEN Reverts("ERC20: transfer amount exceeds balance")
  ELSE Returns(
    [TokenMove(c, sender, "FactVoting", stakeAmount) EXCEPT
       !.votes[articleId][sender] =
          [voter |-> sender, stake |-> stakeAmount, position |-> position,
           timestamp |-> c.now, claimed |-> FALSE],
       !.articleVotings[articleId].totalVotes = @ + 1,
       !.articleVotings[articleId].totalTrueStake =
          @ + (IF position = "TRUE" THEN stakeAmount ELSE 0),
       !.articleVotings[articleId].totalFalseStake =
          @ + (IF position = "TRUE" THEN 0 ELSE stakeAmount)], 0)


\* the owner resolves whenever the voting period is over
resolveFactLate(c, sender, articleId, finalVerdict, proofHash) ==
  IF sender # c.owner THEN Reverts("Ownable: caller is not the owner")
  ELSE IF c.articleVotings[articleId].status # "ACTIVE" THEN Reverts("Voting not active")
  ELSE IF ~(c.now > c.articleVotings[articleId].votingEndTime)
    THEN Reverts("Voting still active")
  ELSE IF finalVerdict \notin {"TRUE", "FALSE"} THEN Reverts("Invalid verdict")
  ELSE IF proofHash = "" THEN Reverts("Proof hash required")
  ELSE Returns([c EXCEPT !.articleVotings[articleId].status = "RESOLVED",
                         !.articleVotings[articleId].finalVerdict = finalVerdict,
                         !.articleVotings[articleId].proofHash = proofHash,
                         !.articleVotings[articleId].resolver = sender], 0)

resolveFact(c, sender, articleId, finalVerdict, proofHash) ==
  IF sender # c.owner THEN Reverts("Ownable: caller is not the owner")
  ELSE IF c.articleVotings[articleId].status # "ACTIVE" THEN Reverts("Voting not active")
  ELSE IF ~(c.now > c.articleVotings[articleId].votingEndTime)
    THEN Reverts("Voting still active")
  ELSE IF ~(c.now <= c.articleVotings[articleId].resolutionEndTime)
    THEN Reverts("Resolution period ended")
  ELSE IF finalVerdict \notin {"TRUE", "FALSE"} THEN Reverts("Invalid verdict")
  ELSE IF proofHash = "" THEN Reverts("Proof hash required")
  ELSE Returns([c EXCEPT !.articleVotings[articleId].status = "RESOLVED",
                         !.articleVotings[articleId].finalVerdict = finalVerdict,
                         !.articleVotings[articleId].proofHash = proofHash,
                         !.articleVotings[articleId].resolver = sender], 0)

\* lines 396-414: what claimRewards pays for a vote of a resolved voting
RewardAmount(voting, vote) ==
  IF vote.position = voting.finalVerdict
  THEN LET winningStake == IF voting.finalVerdict = "TRUE"
                           THEN voting.totalTrueStake ELSE voting.totalFalseStake
           losingStake  == IF voting.finalVerdict = "TRUE"
                           THEN voting.totalFalseStake ELSE voting.totalTrueStake
       IN  vote.stake
             + (IF winningStake > 0
                THEN (((losingStake * SLASHING_PERCENTAGE) \div 100) * vote.stake)
                       \div winningStake
                ELSE 0)
  ELSE (vote.stake * (100 - SLASHING_PERCENTAGE)) \div 100

claimRewards(c, sender, articleId) ==
  IF c.articleVotings[articleId].status # "RESOLVED" THEN Reverts("Voting not resolved")
  ELSE IF c.votes[articleId][sender].voter # sender THEN Reverts("No vote found")
  ELSE IF c.votes[articleId][sender].claimed THEN Reverts("Already claimed")
  ELSE Only({
    IF rewardAmount > 0 /\ c.balances["FactVoting"] < rewardAmount
    THEN Reverts("ERC20: transfer amount exceeds balance")
    ELSE Returns([TokenMove(c, "FactVoting", sender, rewardAmount) EXCEPT
                    !.votes[articleId][sender].claimed = TRUE], 0) :
    rewardAmount \in {RewardAmount(c.articleVotings[articleId],
                                   c.votes[articleId][sender])} })

emergencyCancel(c, sender, articleId) ==
  IF sender # c.owner THEN Reverts("Ownable: caller is not the owner")
  ELSE IF c.articleVotings[articleId].status # "ACTIVE" THEN Reverts("Voting not active")
  ELSE Returns([c EXCEPT !.articleVotings[articleId].status = "CANCELLED",
                         !.articleVotings[articleId].emergencyCancelled = TRUE], 0)


\* the stake is refunded whether or not the vote was paid out before
refundStakeUnchecked(c, sender, articleId) ==
  IF c.articleVotings[articleId].status # "CANCELLED" THEN Reverts("Voting not cancelled")
  ELSE IF c.votes[articleId][sender].voter # sender THEN Reverts("No vote found")
  ELSE IF c.balances["FactVoting"] < c.votes[articleId][sender].stake
    THEN Reverts("ERC20: transfer amount exceeds balance")
  ELSE Returns([TokenMove(c, "FactVoting", sender, c.votes[articleId][sender].stake)
                  EXCEPT !.votes[articleId][sender].claimed = TRUE], 0)

refundStake(c, sender, articleId) ==
  IF c.articleVotings[articleId].status # "CANCELLED" THEN Reverts("Voting not cancelled")
  ELSE IF c.votes[articleId][sender].voter # sender THEN Reverts("No vote found")
  ELSE IF c.votes[articleId][sender].claimed THEN Reverts("Already claimed")
  ELSE IF c.balances["FactVoting"] < c.votes[articleId][sender].stake
    THEN Reverts("ERC20: transfer amount exceeds balance")
  ELSE Returns([TokenMove(c, "FactVoting", sender, c.votes[articleId][sender].stake)
                  EXCEPT !.votes[articleId][sender].claimed = TRUE], 0)

\* the whole balance of the contract goes to the owner
withdrawFees(c, sender) ==
  IF sender # c.owner THEN Reverts("Ownable: caller is not the owner")
  ELSE Returns(TokenMove(c, "FactVoting", c.owner, c.balances["FactVoting"]), 0)

VotingInit ==
  /\ OffChainIdle
  /\ chain = VotingDeployed

\* a later block is mined
Tick ==
  \E t \in BlockTimes :
    /\ t > chain.now
    /\ chain' = [chain EXCEPT !.now = t]
    /\ UNCHANGED <<receipt, relayer, pure>>

\* a voting is started while its whole life lies within the days modelled
StartVoting ==
  \E sender \in Voters, a \in ArticleIds :
    /\ chain.now + VOTING_PERIOD + RESOLUTION_PERIOD <= MaxTime
    /\ Transact("startVoting", startVoting(chain, sender, a))

VoteOnArticle ==
  \E sender \in Voters, a \in Articles, position \in Positions,
     stakeAmount \in StakeAmounts :
    Transact("voteOnArticle", voteOnArticle(chain, sender, a, position, stakeAmount))

ResolveFact ==
  \E sender \in Voters, a \in Articles, finalVerdict \in Positions,
     proofHash \in {"", "QmProof"} :
    Transact("resolveFact", resolveFact(chain, sender, a, finalVerdict, proofHash))

ClaimRewards ==
  \E sender \in Voters, a \in Articles :
    Transact("claimRewards", claimRewards(chain, sender, a))

EmergencyCancel ==
  \E sender \in Voters, a \in Articles :
    Transact("emergencyCancel", emergencyCancel(chain, sender, a))

RefundStake ==
  \E sender \in Voters, a \in Articles :
    Transact("refundStake", refundStake(chain, sender, a))

WithdrawFees ==
  \E sender \in Voters : Transact("withdrawFees", withdrawFees(chain, sender))

VotingNext ==
  \/ Tick
  \/ StartVoting
  \/ VoteOnArticle
  \/ ResolveFact
  \/ ClaimRewards
  \/ EmergencyCancel
  \/ RefundStake
  \/ WithdrawFees

VotingSpec == VotingInit /\ [][VotingNext]_vars

\* ------------------------------------------------------------------------
\* The life of a voting (specification VotingSpec)
\* ------------------------------------------------------------------------

\* a vote of v on a is recorded in this step
VoteRecorded(a, v) ==
  chain.votes[a][v].voter = "" /\ chain'.votes[a][v].voter # ""

C26State ==
  \A a \in ArticleIds :
    /\ chain.articleVotings[a].status \in {"NONE", "ACTIVE", "RESOLVED", "CANCELLED"}
    /\ chain.articleVotings[a].status = "NONE"
         => \A v \in Voters : chain.votes[a][v] = NoVote

C26Step ==
  \A a \in ArticleIds :
    \E old \in {chain.articleVotings[a]}, new \in {chain'.articleVotings[a]} :
      /\ old.status # new.status
           => \/ old.status = "NONE" /\ new.status = "ACTIVE"
              \/ /\ old.status = "ACTIVE" /\ new.status = "RESOLVED"
                 /\ chain.now > old.votingEndTime
                 /\ chain.now <= old.resolutionEndTime
              \/ old.status = "ACTIVE" /\ new.status = "CANCELLED"
      /\ old.status \in {"RESOLVED", "CANCELLED"} => new.status = old.status
      /\ \A v \in Voters :
           VoteRecorded(a, v)
             => /\ old.status = "ACTIVE"
                /\ new.status = "ACTIVE"
                /\ chain.now <= old.votingEndTime

\* C26: the status of a voting moves only NONE -> ACTIVE, ACTIVE -> RESOLVED
\* (after votingEndTime and not after resolutionEndTime) and ACTIVE ->
\* CANCELLED; RESOLVED and CANCELLED are never left; a vote is recorded only
\* while the status is ACTIVE and the time is not past votingEndTime.
C26_VotingStatusMoves == []C26State /\ [][C26Step]_vars

\* a voting with votes of both users was resolved on the last day it could
C26_Witness ==
  /\ chain.name = "FactVoting"
  /\ chain.articleVotings[1].status = "RESOLVED"
  /\ chain.articleVotings[1].totalVotes = 2
  /\ chain.now = chain.articleVotings[1].resolutionEndTime
  /\ \E v \in Voters : chain.votes[1][v].timestamp = chain.articleVotings[1].votingEndTime

\* ------------------------------------------------------------------------
\* One vote, one payout (specification VotingSpec)
\* ------------------------------------------------------------------------

C27State ==
  \A a \in ArticleIds, v \in Voters :
    \E vote \in {chain.votes[a][v]} :
      /\ vote.voter \in {"", v}
      /\ vote.voter = v
           => \A position \in Positions, stakeAmount \in StakeAmounts :
                \E res \in {voteOnArticle(chain, v, a, position, stakeAmount)} :
                  /\ ~res.ok
                  /\ (/\ chain.articleVotings[a].status = "ACTIVE"
                      /\ chain.now <= chain.articleVotings[a].votingEndTime
                      /\ position # "NONE"
                      /\ stakeAmount >= MIN_STAKE)
                       => res.err = "Already voted"
      /\ vote.claimed
           => /\ vote.voter = v
              /\ ~claimRewards(chain, v, a).ok
              /\ ~refundStake(chain, v, a).ok
              /\ chain.articleVotings[a].status = "RESOLVED"
                   => claimRewards(chain, v, a).err = "Already claimed"
              /\ chain.articleVotings[a].status = "CANCELLED"
                   => refundStake(chain, v, a).err = "Already claimed"

\* the votes of v whose claimed flag is set in this step
Claimed(v) ==
  {a \in ArticleIds : ~chain.votes[a][v].claimed /\ chain'.votes[a][v].claimed}

C27Step ==
  \A v \in Voters :
    /\ \A a \in ArticleIds :
         \E old \in {chain.votes[a][v]}, new \in {chain'.votes[a][v]} :
           /\ old.voter # "" => new = [old EXCEPT !.claimed = new.claimed]
           /\ old.claimed => new.claimed
    /\ Cardinality(Claimed(v)) <= 1
    /\ (chain'.balances[v] > chain.balances[v] /\ receipt'.fn # "withdrawFees")
         => Cardinality(Claimed(v)) = 1
    /\ \A a \in Claimed(v) :
         chain'.balances[v] - chain.balances[v]
           = IF chain.articleVotings[a].status = "RESOLVED"
             THEN RewardAmount(chain.articleVotings[a], chain.votes[a][v])
             ELSE chain.votes[a][v].stake

\* C27: an address has at most one vote per article (a second voteOnArticle
\* reverts, with "Already voted" when nothing else is wrong with it), a
\* recorded vote is never overwritten, and a vote is paid out at most once:
\* tokens reach a voter only in the step that sets the claimed flag of one
\* of its votes, the flag is never cleared, and while it is set claimRewards
\* and refundStake for the vote revert.
C27_OneVoteOnePayout == []C27State /\ [][C27Step]_vars

\* a winner has claimed its reward, and the contract still holds tokens it
\* could pay a second time
C27_Witness ==
  /\ chain.name = "FactVoting"
  /\ chain.articleVotings[1].status = "RESOLVED"
  /\ \E v \in Users :
       /\ chain.votes[1][v].claimed
       /\ chain.votes[1][v].position = chain.articleVotings[1].finalVerdict
       /\ chain.balances[v] > InitialBalance
       /\ chain.balances["FactVoting"] >= chain.votes[1][v].stake

\* ------------------------------------------------------------------------
\* The reward of a vote (specification VotingSpec)
\* ------------------------------------------------------------------------

\* what the winners' share is said to be: 80% of the losing stake
RewardPoolShare(voting, vote) ==
  IF vote.position = voting.finalVerdict
  THEN LET winningStake == IF voting.finalVerdict = "TRUE"
                           THEN voting.totalTrueStake ELSE voting.totalFalseStake
           losingStake  == IF voting.finalVerdict = "TRUE"
                           THEN voting.totalFalseStake ELSE voting.totalTrueStake
       IN  vote.stake
             + (((losingStake * REWARD_POOL_PERCENTAGE) \div 100) * vote.stake)
                  \div winningStake
  ELSE (vote.stake * REWARD_POOL_PERCENTAGE) \div 100

\* C24 as stated: claimRewards pays a voter on the side of the final verdict
\* its stake plus (80% of the total losing stake) * stake / total winning
\* stake, and a voter on the losing side 80% of its stake.
C24_EightyPercentToWinners ==
  [][\A v \in Voters : \A a \in Claimed(v) :
       chain.articleVotings[a].status = "RESOLVED"
         => chain'.balances[v] - chain.balances[v]
              = RewardPoolShare(chain.articleVotings[a], chain.votes[a][v])]_vars

\* ------------------------------------------------------------------------
\* The tokens the contract owes (specification VotingSpec)
\* ------------------------------------------------------------------------

\* what the contract owes for the vote of v on a
Owed(c, a, v) ==
  IF c.votes[a][v].voter = v /\ ~c.votes[a][v].claimed
  THEN IF c.articleVotings[a].status = "RESOLVED"
       THEN RewardAmount(c.articleVotings[a], c.votes[a][v])
       ELSE IF c.articleVotings[a].status = "CANCELLED" THEN c.votes[a][v].stake
       ELSE 0
  ELSE 0

RECURSIVE TotalOwed(_, _)
TotalOwed(c, pairs) ==
  IF pairs = {} THEN 0
  ELSE Only({ Owed(c, p[1], p[2]) + TotalOwed(c, pairs \ {p}) :
                p \in {CHOOSE q \in pairs : TRUE} })

\* C23 as stated: whatever votes, resolutions, cancellations, claims and
\* withdrawFees calls happened, the contract's balance covers every unclaimed
\* payout: every voter with an unclaimed vote in a RESOLVED voting can
\* claimRewards, and every voter in a CANCELLED voting can refundStake.
C23_FeesOnlyWithdrawal ==
  /\ chain.balances["FactVoting"] >= TotalOwed(chain, ArticleIds \X Voters)
  /\ \A a \in ArticleIds, v \in Voters :
       (chain.votes[a][v].voter = v /\ ~chain.votes[a][v].claimed)
         => /\ chain.articleVotings[a].status = "RESOLVED"
                 => claimRewards(chain, v, a).ok
            /\ chain.articleVotings[a].status = "CANCELLED"
                 => refundStake(chain, v, a).ok

\* ------------------------------------------------------------------------
\* JournalistApplication (specification ApplicationSpec)
\* ------------------------------------------------------------------------

MaxApplications == 2

\* the ids a call may name: submitted or not
ApplicationIds == 0..(MaxApplications + 1)

ReviewNotes == {"", "see the proof"}

\* the default value of the struct: the enum starts at PENDING
NoApplication ==
  [id |-> 0, applicant |-> "", title |-> "", proofHash |-> "", timestamp |-> 0,
   status |-> "PENDING", reviewer |-> "", reviewNotes |-> "", reviewTimestamp |-> 0]

ApplicationDeployed ==
  [name |-> "JournalistApplication", now |-> 0, owner |-> Owner,
   nextApplicationId |-> 1,
   applications |-> [id \in ApplicationIds |-> NoApplication],
   applicationsByApplicant |-> [u \in Voters |-> <<>>],
   journalists |-> [u \in Voters |-> FALSE]]

submitApplication(c, sender, title, proofHash) ==
  IF c.journalists[sender] THEN Reverts("Already a journalist")
  ELSE Returns([c EXCEPT
                  !.nextApplicationId = @ + 1,
                  !.applications[c.nextApplicationId] =
                     [@ EXCEPT !.id = c.nextApplicationId, !.applicant = sender,
                               !.title = title, !.proofHash = proofHash,
                               !.timestamp = c.now, !.status = "PENDING"],
                  !.applicationsByApplicant[sender] = Append(@, c.nextApplicationId)],
               c.nextApplicationId)

\* an application is reviewed whatever its status
reviewApplicationAgain(c, sender, applicationId, approved, notes) ==
  IF sender # c.owner THEN Reverts("Only owner can call this")
  ELSE IF ~(applicationId > 0 /\ applicationId < c.nextApplicationId)
    THEN Reverts("Application does not exist")
  ELSE Returns([c EXCEPT
                  !.applications[applicationId] =
                     [@ EXCEPT !.status = IF approved THEN "APPROVED" ELSE "REJECTED",
                               !.reviewer = sender, !.reviewNotes = notes,
                               !.reviewTimestamp = c.now],
                  !.journalists[c.applications[applicationId].applicant] =
                     IF approved THEN TRUE ELSE @], 0)

reviewApplication(c, sender, applicationId, approved, notes) ==
  IF sender # c.owner THEN Reverts("Only owner can call this")
  ELSE IF ~(applicationId > 0 /\ applicationId < c.nextApplicationId)
    THEN Reverts("Application does not exist")
  ELSE IF c.applications[applicationId].status # "PENDING"
    THEN Reverts("Application already reviewed")
  ELSE Returns([c EXCEPT
                  !.applications[applicationId] =
                     [@ EXCEPT !.status = IF approved THEN "APPROVED" ELSE "REJECTED",
                               !.reviewer = sender, !.reviewNotes = notes,
                               !.reviewTimestamp = c.now],
                  !.journalists[c.applications[applicationId].applicant] =
                     IF approved THEN TRUE ELSE @], 0)

addJournalist(c, sender, journalist) ==
  IF sender # c.owner THEN Reverts("Only owner can call this")
  ELSE IF c.journalists[journalist] THEN Reverts("Already a journalist")
  ELSE Returns([c EXCEPT !.journalists[journalist] = TRUE], 0)

removeJournalist(c, sender, journalist) ==
  IF sender # c.owner THEN Reverts("Only owner can call this")
  ELSE IF ~c.journalists[journalist] THEN Reverts("Not a journalist")
  ELSE Returns([c EXCEPT !.journalists[journalist] = FALSE], 0)

ApplicationInit ==
  /\ OffChainIdle
  /\ chain = ApplicationDeployed

SubmitApplication ==
  \E sender \in Voters :
    /\ chain.nextApplicationId <= MaxApplications
    /\ Transact("submitApplication",
                submitApplication(chain, sender, "Reporter", "walrusProof"))

ReviewApplication ==
  \E sender \in Voters, id \in ApplicationIds, approved \in BOOLEAN,
     notes \in ReviewNotes :
    Transact("reviewApplication", reviewApplication(chain, sender, id, approved, notes))

AddJournalist ==
  \E sender \in Voters, journalist \in Voters :
    Transact("addJournalist", addJournalist(chain, sender, journalist))

RemoveJournalist ==
  \E sender \in Voters, journalist \in Voters :
    Transact("removeJournalist", removeJournalist(chain, sender, journalist))

\* (every transaction is in the block of day 0)
ApplicationNext ==
  \/ SubmitApplication
  \/ ReviewApplication
  \/ AddJournalist
  \/ RemoveJournalist

ApplicationSpec == ApplicationInit /\ [][ApplicationNext]_vars

\* the application was submitted
WasSubmitted(c, id) == id > 0 /\ id < c.nextApplicationId

C28State ==
  \A id \in ApplicationIds :
    \E app \in {chain.applications[id]} :
      /\ app.status \in {"PENDING", "APPROVED", "REJECTED"}
      /\ app.status # "PENDING" => WasSubmitted(chain, id) /\ app.reviewer = chain.owner
      /\ \A sender \in Voters, approved \in BOOLEAN, notes \in ReviewNotes :
           \E res \in {reviewApplication(chain, sender, id, approved, notes)} :
             /\ res.ok <=> (/\ sender = chain.owner
                            /\ WasSubmitted(chain, id)
                            /\ app.status = "PENDING")
             /\ (sender = chain.owner /\ app.status # "PENDING")
                  => res.err = "Application already reviewed"

C28Step ==
  \A id \in ApplicationIds :
    \E old \in {chain.applications[id]}, new \in {chain'.applications[id]} :
      /\ old.status # new.status
           => /\ old.status = "PENDING"
              /\ WasSubmitted(chain, id)
              /\ receipt'.fn = "reviewApplication"
              /\ new = [old EXCEPT !.status = new.status, !.reviewer = chain.owner,
                                   !.reviewNotes = new.reviewNotes,
                                   !.reviewTimestamp = chain.now]
              /\ new.status = "APPROVED" => chain'.journalists[old.applicant]
              /\ new.status = "REJECTED"
                   => chain'.journalists = chain.journalists
      /\ old.status # "PENDING" => new = old

\* C28: reviewApplication succeeds exactly when the owner calls it on a
\* submitted application that is PENDING; it then moves the application to
\* APPROVED or REJECTED and, on approval, sets journalists[applicant]; on a
\* reviewed application it reverts with "Application already reviewed", and
\* the status, reviewer and notes of a reviewed application never change.
C28_ReviewedOnce == []C28State /\ [][C28Step]_vars

\* one application was approved and the other rejected, and the approved
\* applicant is no journalist any more
C28_Witness ==
  /\ chain.name = "JournalistApplication"
  /\ chain.applications[1].status = "APPROVED"
  /\ chain.applications[2].status = "REJECTED"
  /\ ~chain.journalists[chain.applications[1].applicant]

\* ------------------------------------------------------------------------
\* ArticleManager (specification ArticleSpec).  Ether is counted in units
\* of 0.01 ether.
\* ------------------------------------------------------------------------

MaxVersion == 2

\* the ids a call may name: created or not
ManagedIds == 0..(Cardinality(Users) + 1)

Statuses == {"DRAFT", "UNDER_REVIEW", "PUBLISHED", "FLAGGED"}

NewHashes == {"walrusB"}

MediaHashes == {"walrusMedia"}

\* the default value of the struct: the enum starts at DRAFT
NoArticle ==
  [id |-> 0, author |-> "", walrusHash |-> "", timestamp |-> 0, status |-> "DRAFT",
   stake |-> 0, version |-> 0, mediaHashes |-> <<>>, metadata |-> ""]

\* uint256 public nextArticleId = 1; uint256 public minimumStake = 0.01 ether
ArticleManagerDeployed ==
  [name |-> "ArticleManager", now |-> 0, nextArticleId |-> 1, minimumStake |-> 1,
   stakingManager |-> Owner,
   articles |-> [id \in ManagedIds |-> NoArticle],
   articlesByAuthor |-> [u \in Voters |-> <<>>],
   articlesByDate |-> <<>>,
   articleVersions |-> [id \in ManagedIds |-> <<>>]]

Exists(c, articleId) == articleId > 0 /\ articleId < c.nextArticleId

\* articleVersions[articleId] as the sequence of the hashes of versions 1, 2, ...
createArticle(c, sender, value, walrusHash, metadata) ==
  IF value < c.minimumStake THEN Reverts("Stake below minimum required")
  ELSE Returns([c EXCEPT
                  !.nextArticleId = @ + 1,
                  !.articles[c.nextArticleId] =
                     [@ EXCEPT !.id = c.nextArticleId, !.author = sender,
                               !.walrusHash = walrusHash, !.timestamp = c.now,
                               !.status = "DRAFT", !.stake = value, !.version = 1,
                               !.metadata = metadata],
                  !.articleVersions[c.nextArticleId] = <<walrusHash>>,
                  !.articlesByAuthor[sender] = Append(@, c.nextArticleId),
                  !.articlesByDate = Append(@, c.nextArticleId)],
               c.nextArticleId)

\* an article is updated whatever its status
updateArticleAnyStatus(c, sender, articleId, newWalrusHash, newMetadata) ==
  IF ~Exists(c, articleId) THEN Reverts("Article does not exist")
  ELSE IF c.articles[articleId].author # sender THEN Reverts("Not the article author")
  ELSE Returns([c EXCEPT
                  !.articles[articleId].version = @ + 1,
                  !.articles[articleId].walrusHash = newWalrusHash,
                  !.articles[articleId].metadata = newMetadata,
                  !.articleVersions[articleId] = Append(@, newWalrusHash)], 0)

updateArticle(c, sender, articleId, newWalrusHash, newMetadata) ==
  IF ~Exists(c, articleId) THEN Reverts("Article does not exist")
  ELSE IF c.articles[articleId].author # sender THEN Reverts("Not the article author")
  ELSE IF c.articles[articleId].status \notin {"DRAFT", "UNDER_REVIEW"}
    THEN Reverts("Cannot update published or flagged articles")
  ELSE Returns([c EXCEPT
                  !.articles[articleId].version = @ + 1,
                  !.articles[articleId].walrusHash = newWalrusHash,
                  !.articles[articleId].metadata = newMetadata,
                  !.articleVersions[articleId] = Append(@, newWalrusHash)], 0)

changeArticleStatus(c, sender, articleId, newStatus) ==
  IF ~Exists(c, articleId) THEN Reverts("Article does not exist")
  ELSE IF ~(sender = c.articles[articleId].author \/ sender = c.stakingManager)
    THEN Reverts("Only author or staking manager can change status")
  ELSE Returns([c EXCEPT !.articles[articleId].status = newStatus], 0)

attachMedia(c, sender, articleId, mediaHash) ==
  IF c.articles[articleId].author # sender THEN Reverts("Not the article author")
  ELSE IF ~Exists(c, articleId) THEN Reverts("Article does not exist")
  ELSE Returns([c EXCEPT !.articles[articleId].mediaHashes = Append(@, mediaHash)], 0)

adjustStake(c, sender, articleId, newStake) ==
  IF sender # c.stakingManager THEN Reverts("Only staking manager can call this")
  ELSE IF ~Exists(c, articleId) THEN Reverts("Article does not exist")
  ELSE Returns([c EXCEPT !.articles[articleId].stake = newStake], 0)

updateStakingManager(c, sender, newStakingManager) ==
  IF sender # c.stakingManager THEN Reverts("Only current staking manager can update")
  ELSE Returns([c EXCEPT !.stakingManager = newStakingManager], 0)

ArticleInit ==
  /\ OffChainIdle
  /\ chain = ArticleManagerDeployed

\* every user creates one article at most
CreateArticle ==
  \E sender \in Users, value \in {0, 1} :
    /\ chain.articlesByAuthor[sender] = <<>>
    /\ Transact("createArticle",
                createArticle(chain, sender, value, "walrusA", "{}"))

UpdateArticle ==
  \E sender \in Voters, id \in ManagedIds, newWalrusHash \in NewHashes :
    /\ chain.articles[id].version < MaxVersion
    /\ Transact("updateArticle",
                updateArticle(chain, sender, id, newWalrusHash, "{v}"))

ChangeArticleStatus ==
  \E sender \in Voters, id \in ManagedIds, newStatus \in Statuses :
    Transact("changeArticleStatus", changeArticleStatus(chain, sender, id, newStatus))

\* a media file is attached to an article once
AttachMedia ==
  \E sender \in Voters, id \in ManagedIds, mediaHash \in MediaHashes :
    /\ \A i \in 1..Len(chain.articles[id].mediaHashes) :
         chain.articles[id].mediaHashes[i] # mediaHash
    /\ Transact("attachMedia", attachMedia(chain, sender, id, mediaHash))

AdjustStake ==
  \E sender \in Voters, id \in ManagedIds, newStake \in {0, 1} :
    Transact("adjustStake", adjustStake(chain, sender, id, newStake))

UpdateStakingManager ==
  \E sender \in Voters, newStakingManager \in {Owner, "alice"} :
    Transact("updateStakingManager",
             updateStakingManager(chain, sender, newStakingManager))

ArticleNext ==
  \/ CreateArticle
  \/ UpdateArticle
  \/ ChangeArticleStatus
  \/ AttachMedia
  \/ AdjustStake
  \/ UpdateStakingManager

ArticleSpec == ArticleInit /\ [][ArticleNext]_vars

\* the content of an article: what updateArticle is about
Content(c, id) ==
  <<c.articles[id].version, c.articles[id].walrusHash, c.articles[id].metadata,
    c.articleVersions[id]>>

C30State ==
  \A id \in ManagedIds :
    \E art \in {chain.articles[id]} :
      /\ Len(chain.articleVersions[id]) = art.version
      /\ \A sender \in Voters, newWalrusHash \in NewHashes :
           \E res \in {updateArticle(chain, sender, id, newWalrusHash, "{v}")} :
             /\ res.ok <=> (/\ Exists(chain, id)
                            /\ sender = art.author
                            /\ art.status \in {"DRAFT", "UNDER_REVIEW"})
             /\ res.ok
                  => /\ res.chain.articles[id]
                          = [art EXCEPT !.version = art.version + 1,
                                        !.walrusHash = newWalrusHash,
                                        !.metadata = "{v}"]
                     /\ res.chain.articleVersions[id][art.version + 1] = newWalrusHash
                     /\ \A v \in 1..art.version :
                          res.chain.articleVersions[id][v] = chain.articleVersions[id][v]
                     /\ \A other \in ManagedIds \ {id} :
                          /\ res.chain.articles[other] = chain.articles[other]
                          /\ res.chain.articleVersions[other] = chain.articleVersions[other]
             /\ (sender = art.author /\ art.status \in {"PUBLISHED", "FLAGGED"})
                  => res.err = "Cannot update published or flagged articles"

C30Step ==
  \A id \in ManagedIds :
    (Exists(chain, id) /\ Content(chain, id)' # Content(chain, id))
      => /\ chain.articles[id].status \in {"DRAFT", "UNDER_REVIEW"}
         /\ receipt'.fn = "updateArticle"
         /\ chain'.articles[id].version = chain.articles[id].version + 1
         /\ chain'.articleVersions[id]
              = Append(chain.articleVersions[id], chain'.articles[id].walrusHash)
         /\ chain'.articles[id].status = chain.articles[id].status
         /\ chain'.articles[id].author = chain.articles[id].author

\* C30: updateArticle succeeds exactly when the author calls it on an
\* existing article in status DRAFT or UNDER_REVIEW; it then raises version
\* by one, records the new hash under the new version and changes nothing
\* else but walrusHash and metadata; on a PUBLISHED or FLAGGED article it
\* reverts, and the version, walrusHash, metadata and version history of an
\* article change in no step taken while it is PUBLISHED or FLAGGED.
C30_NoUpdateOncePublished == []C30State /\ [][C30Step]_vars

\* an article was updated and then published, another is flagged
C30_Witness ==
  /\ chain.name = "ArticleManager"
  /\ chain.articles[1].status = "PUBLISHED"
  /\ chain.articles[1].version = 2
  /\ chain.articleVersions[1] = <<"walrusA", "walrusB">>
  /\ chain.articles[2].status = "FLAGGED"

\* ------------------------------------------------------------------------
\* FreePressToken (specification TokenSpec).  Amounts are whole tokens.
\* The token is an OpenZeppelin 4 ERC20: every transfer and burn runs
\* _beforeTokenTransfer first.
\* ------------------------------------------------------------------------

MaxLocks == 2

MaxHeld == 300

MaxBurned == 100

INITIAL_SUPPLY == 1000000000

INITIAL_USER_TOKENS == 100

INITIAL_JOURNALIST_TOKENS == 500

\* address(this), an authorized contract and address(0)
TokenAddress == "token"

Registry == "registry"

ZeroAddress == "0x0"

Accounts == Users \cup {Owner, Registry, TokenAddress}

Recipients == Users \cup {TokenAddress, ZeroAddress}

Purposes == {"VOTING", "ARTICLE_STAKE"}

Amounts == {0, 100}

LockedAmounts == {0, 100, 300}

LockAmounts == {0, 200}

TokenTimes == {0, 1}

\* constructor: owner = msg.sender; _mint(address(this), INITIAL_SUPPLY)
TokenDeployed ==
  [name |-> "FreePressToken", now |-> 0, owner |-> Owner, paused |-> FALSE,
   authorizedContracts |-> {}, hasClaimedTokens |-> {},
   totalSupply |-> INITIAL_SUPPLY,
   balances |-> [a \in Accounts |-> IF a = TokenAddress THEN INITIAL_SUPPLY ELSE 0],
   userLocks |-> [a \in Accounts |-> <<>>],
   totalLocked |-> [a \in Accounts |-> 0],
   totalLockedByPurpose |-> [p \in Purposes |-> 0]]

\* balanceOf(user) - totalLocked[user]: checked arithmetic, negative stands
\* for the panic of the subtraction
availableBalance(c, user) == c.balances[user] - c.totalLocked[user]

\* the hook passes locked tokens
beforeTokenTransferUnchecked(c, from, amount) ==
  IF c.paused THEN "Pausable: paused"
  ELSE ""

\* the error of _beforeTokenTransfer, "" when it passes
beforeTokenTransfer(c, from, amount) ==
  IF from # ZeroAddress /\ amount > 0 /\ availableBalance(c, from) < 0 THEN "Panic(0x11)"
  ELSE IF from # ZeroAddress /\ amount > 0 /\ availableBalance(c, from) < amount
    THEN "InsufficientUnlockedBalance"
  ELSE IF c.paused THEN "Pausable: paused"
  ELSE ""

\* ERC20._transfer
ERC20Transfer(c, from, to, amount) ==
  IF from = ZeroAddress THEN Reverts("ERC20: transfer from the zero address")
  ELSE IF to = ZeroAddress THEN Reverts("ERC20: transfer to the zero address")
  ELSE IF beforeTokenTransfer(c, from, amount) # ""
    THEN Reverts(beforeTokenTransfer(c, from, amount))
  ELSE IF c.balances[from] < amount THEN Reverts("ERC20: transfer amount exceeds balance")
  ELSE Returns([c EXCEPT !.balances =
                  [a \in Accounts |->
                     c.balances[a] - (IF a = from THEN amount ELSE 0)
                                   + (IF a = to THEN amount ELSE 0)]], 1)

\* ERC20._burn
ERC20Burn(c, account, amount) ==
  IF account = ZeroAddress THEN Reverts("ERC20: burn from the zero address")
  ELSE IF beforeTokenTransfer(c, account, amount) # ""
    THEN Reverts(beforeTokenTransfer(c, account, amount))
  ELSE IF c.balances[account] < amount THEN Reverts("ERC20: burn amount exceeds balance")
  ELSE Returns([c EXCEPT !.balances[account] = @ - amount,
                         !.totalSupply = @ - amount], 0)

authorizeContract(c, sender, contractAddress) ==
  IF sender # c.owner THEN Reverts("OnlyOwner")
  ELSE IF contractAddress = ZeroAddress THEN Reverts("ZeroAddress")
  ELSE Returns([c EXCEPT !.authorizedContracts = @ \cup {contractAddress}], 0)

claimInitialTokens(c, sender, user, isJournalist) ==
  IF sender \notin c.authorizedContracts THEN Reverts("UnauthorizedAccess")
  ELSE IF user \in c.hasClaimedTokens THEN Reverts("AlreadyClaimed")
  ELSE ERC20Transfer([c EXCEPT !.hasClaimedTokens = @ \cup {user}], TokenAddress, user,
                     IF isJournalist THEN INITIAL_JOURNALIST_TOKENS
                     ELSE INITIAL_USER_TOKENS)

transfer(c, sender, to, amount) == ERC20Transfer(c, sender, to, amount)

lockTokens(c, sender, user, amount, unlockTime, purpose) ==
  IF sender \notin c.authorizedContracts THEN Reverts("UnauthorizedAccess")
  ELSE IF amount = 0 THEN Reverts("ZeroAmount")
  ELSE IF user = ZeroAddress THEN Reverts("ZeroAddress")
  ELSE IF unlockTime <= c.now THEN Reverts("InvalidUnlockTime")
  ELSE IF availableBalance(c, user) < 0 THEN Reverts("Panic(0x11)")
  ELSE IF availableBalance(c, user) < amount THEN Reverts("InsufficientUnlockedBalance")
  ELSE Returns([c EXCEPT
                  !.userLocks[user] =
                     Append(@, [amount |-> amount, unlockTime |-> unlockTime,
                                purpose |-> purpose]),
                  !.totalLocked[user] = @ + amount,
                  !.totalLockedByPurpose[purpose] = @ + amount], 0)

\* userLocks[user][lockIndex] = userLocks[user][lastIndex]; userLocks[user].pop()
\* (lockIndex counts from 0)
SwapAndPop(locks, lockIndex) ==
  SubSeq(IF lockIndex # Len(locks) - 1
           THEN [locks EXCEPT ![lockIndex + 1] = locks[Len(locks)]]
           ELSE locks,
         1, Len(locks) - 1)

\* the common end of unlockTokens and forceUnlock
RemoveLock(c, user, lockIndex) ==
  \* the lock is bound once
  Only({ IF c.totalLocked[user] < lock.amount
              \/ c.totalLockedByPurpose[lock.purpose] < lock.amount
           THEN Reverts("Panic(0x11)")
           ELSE Returns([c EXCEPT
                           !.userLocks[user] = SwapAndPop(@, lockIndex),
                           !.totalLocked[user] = @ - lock.amount,
                           !.totalLockedByPurpose[lock.purpose] = @ - lock.amount], 0)
         : lock \in {c.userLocks[user][lockIndex + 1]} })

unlockTokens(c, sender, user, lockIndex) ==
  IF user = ZeroAddress \/ lockIndex >= Len(c.userLocks[user]) THEN Reverts("LockNotFound")
  ELSE IF sender # user /\ sender \notin c.authorizedContracts
    THEN Reverts("UnauthorizedAccess")
  ELSE IF c.now < c.userLocks[user][lockIndex + 1].unlockTime
    THEN Reverts("InvalidUnlockTime")
  ELSE RemoveLock(c, user, lockIndex)

forceUnlock(c, sender, user, lockIndex) ==
  IF sender \notin c.authorizedContracts THEN Reverts("UnauthorizedAccess")
  ELSE IF user = ZeroAddress \/ lockIndex >= Len(c.userLocks[user])
    THEN Reverts("LockNotFound")
  ELSE RemoveLock(c, user, lockIndex)

\* the while loop of transferLocked from index i on: the locks left and the
\* amount still to find
RECURSIVE ConsumeLocks(_, _, _, _)
ConsumeLocks(locks, i, remainingAmount, purpose) ==
  IF ~(i < Len(locks) /\ remainingAmount > 0)
    THEN [locks |-> locks, remainingAmount |-> remainingAmount]
  ELSE IF locks[i + 1].purpose # purpose
    THEN ConsumeLocks(locks, i + 1, remainingAmount, purpose)
  ELSE IF locks[i + 1].amount <= remainingAmount
    THEN Only({ ConsumeLocks(rest, i, remainingAmount - locks[i + 1].amount, purpose)
                : rest \in {SwapAndPop(locks, i)} })
  ELSE Only({ ConsumeLocks(rest, i + 1, 0, purpose)
              : rest \in {[locks EXCEPT ![i + 1].amount = @ - remainingAmount]} })

transferLocked(c, sender, from, to, amount, purpose) ==
  IF sender \notin c.authorizedContracts THEN Reverts("UnauthorizedAccess")
  ELSE IF amount = 0 THEN Reverts("ZeroAmount")
  ELSE IF to = ZeroAddress THEN Reverts("ZeroAddress")
  ELSE IF from = ZeroAddress THEN Reverts("InsufficientUnlockedBalance")
  ELSE Only({ IF found.remainingAmount > 0 THEN Reverts("InsufficientUnlockedBalance")
              ELSE IF c.totalLocked[from] < amount \/ c.totalLockedByPurpose[purpose] < amount
                THEN Reverts("Panic(0x11)")
              ELSE ERC20Transfer([c EXCEPT !.userLocks[from] = found.locks,
                                           !.totalLocked[from] = @ - amount,
                                           !.totalLockedByPurpose[purpose] = @ - amount],
                                 from, to, amount)
              : found \in {ConsumeLocks(c.userLocks[from], 0, amount, purpose)} })

mintReward(c, sender, to, amount) ==
  IF sender \notin c.authorizedContracts THEN Reverts("UnauthorizedAccess")
  ELSE IF to = ZeroAddress THEN Reverts("ZeroAddress")
  ELSE IF amount = 0 THEN Reverts("ZeroAmount")
  ELSE ERC20Transfer(c, TokenAddress, to, amount)

burn(c, sender, amount) ==
  IF availableBalance(c, sender) < 0 THEN Reverts("Panic(0x11)")
  ELSE IF availableBalance(c, sender) < amount THEN Reverts("InsufficientUnlockedBalance")
  ELSE ERC20Burn(c, sender, amount)

burnFrom(c, sender, from, amount) ==
  IF sender \notin c.authorizedContracts THEN Reverts("UnauthorizedAccess")
  ELSE IF from = ZeroAddress THEN Reverts("Panic(0x11)")
  ELSE IF availableBalance(c, from) < 0 THEN Reverts("Panic(0x11)")
  ELSE IF availableBalance(c, from) < amount THEN Reverts("InsufficientUnlockedBalance")
  ELSE ERC20Burn(c, from, amount)

pause(c, sender) ==
  IF sender # c.owner THEN Reverts("OnlyOwner")
  ELSE IF c.paused THEN Reverts("Pausable: paused")
  ELSE Returns([c EXCEPT !.paused = TRUE], 0)

unpause(c, sender) ==
  IF sender # c.owner THEN Reverts("OnlyOwner")
  ELSE IF ~c.paused THEN Reverts("Pausable: not paused")
  ELSE Returns([c EXCEPT !.paused = FALSE], 0)

\* the owner, the authorized contract and a user
TokenSenders == {Owner, Registry, "alice"}

\* no user holds more than MaxHeld tokens or MaxLocks locks, and no more
\* than MaxBurned tokens are burnt
Held(res) ==
  res.ok => /\ res.chain.totalSupply >= INITIAL_SUPPLY - MaxBurned
            /\ \A u \in Users : /\ res.chain.balances[u] <= MaxHeld
                                /\ Len(res.chain.userLocks[u]) <= MaxLocks

\* a transaction on the token: its receipt is not kept
Apply(res) ==
  IF res.ok THEN chain' = res.chain /\ UNCHANGED <<receipt, relayer, pure>>
  ELSE UNCHANGED vars

TokenInit ==
  /\ OffChainIdle
  /\ chain = TokenDeployed

TokenTick ==
  /\ chain.now = 0
  /\ Apply(Returns([chain EXCEPT !.now = 1], 0))

AuthorizeContract ==
  \E sender \in TokenSenders, contractAddress \in {Registry, ZeroAddress} :
    Apply(authorizeContract(chain, sender, contractAddress))

ClaimInitialTokens ==
  \E sender \in TokenSenders, user \in Users \cup {ZeroAddress}, isJournalist \in BOOLEAN :
    \E res \in {claimInitialTokens(chain, sender, user, isJournalist)} :
      Held(res) /\ Apply(res)

Transfer ==
  \E sender \in Users, to \in Recipients, amount \in Amounts :
    \E res \in {transfer(chain, sender, to, amount)} :
      Held(res) /\ Apply(res)

LockTokens ==
  \E sender \in TokenSenders, user \in Users \cup {ZeroAddress}, amount \in LockAmounts,
     unlockTime \in TokenTimes, purpose \in Purposes :
    \E res \in {lockTokens(chain, sender, user, amount, unlockTime, purpose)} :
      Held(res) /\ Apply(res)

UnlockTokens ==
  \E sender \in TokenSenders, user \in Users, lockIndex \in 0..MaxLocks :
    Apply(unlockTokens(chain, sender, user, lockIndex))

ForceUnlock ==
  \E sender \in TokenSenders, user \in Users, lockIndex \in 0..MaxLocks :
    Apply(forceUnlock(chain, sender, user, lockIndex))

TransferLocked ==
  \E sender \in TokenSenders, from \in Users, to \in Users \cup {ZeroAddress},
     amount \in LockedAmounts, purpose \in Purposes :
    \E res \in {transferLocked(chain, sender, from, to, amount, purpose)} :
      Held(res) /\ Apply(res)

MintReward ==
  \E sender \in TokenSenders, to \in Recipients, amount \in Amounts :
    \E res \in {mintReward(chain, sender, to, amount)} :
      Held(res) /\ Apply(res)

Burn ==
  \E sender \in Users, amount \in Amounts :
    \E res \in {burn(chain, sender, amount)} :
      Held(res) /\ Apply(res)

BurnFrom ==
  \E sender \in TokenSenders, from \in Users, amount \in Amounts :
    \E res \in {burnFrom(chain, sender, from, amount)} :
      Held(res) /\ Apply(res)

Pause ==
  \E sender \in TokenSenders : Apply(pause(chain, sender))

Unpause ==
  \E sender \in TokenSenders : Apply(unpause(chain, sender))

TokenNext ==
  \/ TokenTick
  \/ AuthorizeContract
  \/ ClaimInitialTokens
  \/ Transfer
  \/ LockTokens
  \/ UnlockTokens
  \/ ForceUnlock
  \/ TransferLocked
  \/ MintReward
  \/ Burn
  \/ BurnFrom
  \/ Pause
  \/ Unpause

TokenSpec == TokenInit /\ [][TokenNext]_vars

RECURSIVE SumLocks(_, _)
SumLocks(locks, k) == IF k = 0 THEN 0 ELSE SumLocks(locks, k - 1) + locks[k].amount

\* C25: in every state reached by claimInitialTokens, transfer, lockTokens,
\* unlockTokens, forceUnlock, transferLocked, mintReward, burn and burnFrom,
\* every address u has totalLocked[u] <= balanceOf(u) and totalLocked[u]
\* equal to the sum of the amounts of userLocks[u].
C25_LockedWithinBalance ==
  chain.name = "FreePressToken"
    => \A u \in Accounts :
         /\ chain.totalLocked[u] <= chain.balances[u]
         /\ chain.totalLocked[u] = SumLocks(chain.userLocks[u], Len(chain.userLocks[u]))

\* a lock of 200 was used in part by transferLocked: what is left of it is
\* the whole balance of its holder, and the other user holds what was moved
C25_Witness ==
  /\ chain.name = "FreePressToken"
  /\ Len(chain.userLocks["alice"]) = 1
  /\ chain.userLocks["alice"][1].amount = 100
  /\ chain.totalLocked["alice"] = 100
  /\ chain.balances["alice"] = 100
  /\ chain.balances["bob"] = 100
  /\ "bob" \notin chain.hasClaimedTokens

\* ------------------------------------------------------------------------
\* UserRegistry with its AccessManager and FreePressToken (specification
\* RegistrySpec).  chain.access and chain.token are the storage of the two
\* contracts the registry calls; a revert in a call reverts the transaction.
\* ------------------------------------------------------------------------

SelfVerifier == "selfVerification"

Roles == {"VERIFIED_USER_ROLE", "JOURNALIST_ROLE"}

CredentialURIs == {"", "ipfs://credentials"}

ProfileURIs == {"", "ipfs://profile"}

NoUser ==
  [isRegistered |-> FALSE, isJournalist |-> FALSE, registeredAt |-> 0, reputation |-> 0,
   profileMetadataURI |-> "", name |-> "", nationality |-> "", dateOfBirth |-> ""]

NoJournalistApplication == [hasApplied |-> FALSE, credentialsURI |-> "", appliedAt |-> 0]

NoJournalistInfo == [isVerified |-> FALSE, verifiedAt |-> 0, metadataURI |-> ""]

\* constructor: owner = msg.sender; _grantRole(msg.sender, VERIFIED_USER_ROLE)
AccessManagerDeployed ==
  [name |-> "AccessManager", now |-> 0, owner |-> Owner, authorizedContracts |-> {},
   roles |-> {<<Owner, "VERIFIED_USER_ROLE">>},
   journalists |-> [u \in Users |-> NoJournalistInfo]]

RegistryDeployed ==
  [name |-> "UserRegistry", now |-> 0, owner |-> Owner,
   selfVerificationContract |-> ZeroAddress,
   users |-> [u \in Users |-> NoUser],
   journalistApplications |-> [u \in Users |-> NoJournalistApplication],
   totalUsers |-> 0, totalJournalists |-> 0,
   access |-> AccessManagerDeployed,
   token |-> TokenDeployed]

AccessManager_authorizeContract(a, sender, contractAddress) ==
  IF sender # a.owner THEN Reverts("OnlyOwner")
  ELSE IF contractAddress = ZeroAddress THEN Reverts("ZeroAddress")
  ELSE Returns([a EXCEPT !.authorizedContracts = @ \cup {contractAddress}], 0)

AccessManager_onlyAuthorized(a, sender) ==
  sender \in a.authorizedContracts \/ sender = a.owner

AccessManager_grantUserRole(a, sender, account) ==
  IF ~AccessManager_onlyAuthorized(a, sender) THEN Reverts("OnlyAuthorized")
  ELSE Returns([a EXCEPT !.roles = @ \cup {<<account, "VERIFIED_USER_ROLE">>}], 0)

AccessManager_verifyJournalist(a, sender, journalist, metadataURI) ==
  IF ~AccessManager_onlyAuthorized(a, sender) THEN Reverts("OnlyAuthorized")
  ELSE IF journalist = ZeroAddress THEN Reverts("ZeroAddress")
  ELSE Returns([a EXCEPT !.roles = @ \cup {<<journalist, "JOURNALIST_ROLE">>},
                         !.journalists[journalist] =
                            [isVerified |-> TRUE, verifiedAt |-> a.now,
                             metadataURI |-> metadataURI]], 0)

setSelfVerificationContract(c, sender, selfVerificationContract) ==
  IF sender # c.owner THEN Reverts("OnlyOwner")
  ELSE IF selfVerificationContract = ZeroAddress THEN Reverts("InvalidAddress")
  ELSE Returns([c EXCEPT !.selfVerificationContract = selfVerificationContract], 0)

registerVerifiedUser(c, sender, userAddress, name, nationality, dateOfBirth) ==
  IF sender # c.selfVerificationContract THEN Reverts("OnlySelfVerification")
  ELSE IF c.users[userAddress].isRegistered THEN Reverts("AlreadyRegistered")
  ELSE Only({ IF ~granted.ok THEN Reverts(granted.err)
              ELSE IF ~claimed.ok THEN Reverts(claimed.err)
              ELSE Returns([c EXCEPT
                              !.users[userAddress] =
                                 [isRegistered |-> TRUE, isJournalist |-> FALSE,
                                  registeredAt |-> c.now, reputation |-> 100,
                                  profileMetadataURI |-> "", name |-> name,
                                  nationality |-> nationality,
                                  dateOfBirth |-> dateOfBirth],
                              !.totalUsers = @ + 1,
                              !.access = granted.chain,
                              !.token = claimed.chain], 0)
              : granted \in {AccessManager_grantUserRole(c.access, Registry, userAddress)},
                claimed \in {claimInitialTokens(c.token, Registry, userAddress, FALSE)} })

\* _verifyJournalist
verifyJournalist(c, journalist) ==
  Only({ IF ~verified.ok THEN Reverts(verified.err)
         ELSE IF ~claimed.ok THEN Reverts(claimed.err)
         ELSE Returns([c EXCEPT !.users[journalist].isJournalist = TRUE,
                                !.totalJournalists = @ + 1,
                                !.access = verified.chain,
                                !.token = claimed.chain], 0)
         : verified \in {AccessManager_verifyJournalist(
                           c.access, Registry, journalist,
                           c.journalistApplications[journalist].credentialsURI)},
           claimed \in {claimInitialTokens(c.token, Registry, journalist, TRUE)} })

applyForJournalist(c, sender, credentialsURI) ==
  IF ~c.users[sender].isRegistered THEN Reverts("NotRegistered")
  ELSE IF c.users[sender].isJournalist THEN Reverts("AlreadyJournalist")
  ELSE IF credentialsURI = "" THEN Reverts("InvalidURI")
  ELSE verifyJournalist(
         [c EXCEPT !.journalistApplications[sender] =
                      [hasApplied |-> TRUE, credentialsURI |-> credentialsURI,
                       appliedAt |-> c.now]],
         sender)

updateProfile(c, sender, metadataURI) ==
  IF ~c.users[sender].isRegistered THEN Reverts("NotRegistered")
  ELSE IF metadataURI = "" THEN Reverts("InvalidURI")
  ELSE Returns([c EXCEPT !.users[sender].profileMetadataURI = metadataURI], 0)

\* a transaction sent to the token or to the access manager
OnToken(c, res) == IF res.ok THEN Returns([c EXCEPT !.token = res.chain], res.ret) ELSE res

OnAccess(c, res) == IF res.ok THEN Returns([c EXCEPT !.access = res.chain], res.ret) ELSE res

RegistrySenders == Users \cup {Owner, SelfVerifier}

RegistryInit ==
  /\ OffChainIdle
  /\ chain = RegistryDeployed

SetSelfVerificationContract ==
  \E sender \in RegistrySenders, selfVerificationContract \in {SelfVerifier, ZeroAddress} :
    Transact("setSelfVerificationContract",
             setSelfVerificationContract(chain, sender, selfVerificationContract))

AuthorizeInAccessManager ==
  \E sender \in RegistrySenders, contractAddress \in {Registry, ZeroAddress} :
    Transact("AccessManager.authorizeContract",
             OnAccess(chain, AccessManager_authorizeContract(chain.access, sender,
                                                             contractAddress)))

AuthorizeInToken ==
  \E sender \in RegistrySenders, contractAddress \in {Registry, ZeroAddress} :
    Transact("FreePressToken.authorizeContract",
             OnToken(chain, authorizeContract(chain.token, sender, contractAddress)))

RegisterVerifiedUser ==
  \E sender \in RegistrySenders, userAddress \in Users :
    Transact("registerVerifiedUser",
             registerVerifiedUser(chain, sender, userAddress, "name", "FR", "01-01-90"))

ApplyForJournalist ==
  \E sender \in Users, credentialsURI \in CredentialURIs :
    Transact("applyForJournalist", applyForJournalist(chain, sender, credentialsURI))

UpdateProfile ==
  \E sender \in Users, metadataURI \in ProfileURIs :
    Transact("updateProfile", updateProfile(chain, sender, metadataURI))

TransferTokens ==
  \E sender \in Users, to \in Users, amount \in Amounts :
    Transact("FreePressToken.transfer",
             OnToken(chain, transfer(chain.token, sender, to, amount)))

RegistryNext ==
  \/ SetSelfVerificationContract
  \/ AuthorizeInAccessManager
  \/ AuthorizeInToken
  \/ RegisterVerifiedUser
  \/ ApplyForJournalist
  \/ UpdateProfile
  \/ TransferTokens

RegistrySpec == RegistryInit /\ [][RegistryNext]_vars

\* C22: a user registered through registerVerifiedUser (which claimed the
\* 100 user tokens) who calls applyForJournalist with a non-empty
\* credentials URI succeeds, is a journalist afterwards and holds 400
\* tokens more.
C22_JournalistGetsDifference ==
  chain.name = "UserRegistry"
    => \A u \in Users, credentialsURI \in CredentialURIs \ {""} :
         (chain.users[u].isRegistered /\ ~chain.users[u].isJournalist)
           => \E res \in {applyForJournalist(chain, u, credentialsURI)} :
                /\ res.ok
                /\ res.chain.users[u].isJournalist
                /\ res.chain.token.balances[u]
                     = chain.token.balances[u]
                         + INITIAL_JOURNALIST_TOKENS - INITIAL_USER_TOKENS

\* what the code does instead: every applyForJournalist of a registered user
\* reverts, and no user is ever a journalist
C22_NoJournalistEver ==
  chain.name = "UserRegistry"
    => \A u \in Users :
         /\ ~chain.users[u].isJournalist
         /\ chain.users[u].isRegistered => u \in chain.token.hasClaimedTokens
         /\ \A credentialsURI \in CredentialURIs :
              ~applyForJournalist(chain, u, credentialsURI).ok
         /\ chain.users[u].isRegistered
              => applyForJournalist(chain, u, "ipfs://credentials").err = "AlreadyClaimed"

=============================================================================
